---------------------------- MODULE Spec2Model ----------------------------
(***************************************************************************)
(* A model of the irc-slack gateway (package ircslack): one client         *)
(* connection with its line reader, its login (connectToSlack), its Slack  *)
(* event handler, its join-burst tasks and its outbound batcher, and the   *)
(* rate-limited fetchers of the identifier caches.                         *)
(*                                                                         *)
(* Strings that the code inspects (passwords, Slack texts) are sequences   *)
(* of one-character strings, so that Split, HasPrefix, HasSuffix and       *)
(* TrimSpace are computed as the Go library computes them.                 *)
(***************************************************************************)
EXTENDS Integers, Sequences, FiniteSets, TLC

(***************************************************************************)
(* Bounds of the model.                                                    *)
(***************************************************************************)
\* lines one client sends on its connection
MaxLines == 4
\* Slack RTM events delivered to one connection
MaxEvents == 1

(***************************************************************************)
(* Program constants.                                                      *)
(***************************************************************************)
MaxSlackAPIAttempts == 3

(***************************************************************************)
(* String helpers (package strings).                                       *)
(***************************************************************************)
HasPrefix(s, p) == Len(s) >= Len(p) /\ SubSeq(s, 1, Len(p)) = p

HasSuffix(s, p) == Len(s) >= Len(p) /\ SubSeq(s, Len(s) - Len(p) + 1, Len(s)) = p

\* strings.Split(s, sep) for a one-character separator: always at least one part
RECURSIVE Split(_, _)
Split(s, sep) ==
    IF \A i \in 1..Len(s) : s[i] # sep
    THEN <<s>>
    ELSE LET k == CHOOSE i \in 1..Len(s) :
                      s[i] = sep /\ \A j \in 1..(i - 1) : s[j] # sep
         IN  <<SubSeq(s, 1, k - 1)>> \o Split(SubSeq(s, k + 1, Len(s)), sep)

IsSpace(c) == c \in {" ", "\n", "\t", "\r"}

\* strings.TrimSpace
RECURSIVE TrimLeft(_)
TrimLeft(s) == IF s # <<>> /\ IsSpace(Head(s)) THEN TrimLeft(Tail(s)) ELSE s

RECURSIVE TrimRight(_)
TrimRight(s) ==
    IF s # <<>> /\ IsSpace(s[Len(s)]) THEN TrimRight(SubSeq(s, 1, Len(s) - 1)) ELSE s

TrimSpace(s) == TrimRight(TrimLeft(s))

(***************************************************************************)
(* Credentials.                                                            *)
(***************************************************************************)
PwLegacy == <<"x", "o", "x", "p", "-", "T">>
PwCookie == <<"x", "o", "x", "c", "-", "T", "|", "d", "=", "C", ";">>
PwThree  == <<"a", "|", "b", "|", "c">>
PwNoXoxc == <<"x", "o", "x", "p", "-", "T", "|", "d", "=", "C", ";">>
PwEmptyCookie == <<"x", "o", "x", "c", "-", "T", "|">>

XoxcPrefix == <<"x", "o", "x", "c", "-">>
CookiePrefix == <<"d", "=">>
CookieSuffix == <<";">>

\* a parser that does not ask for the ';' at the end of the cookie
passwordCookieAnyEnd(p) ==
    LET parts == Split(p, "|")
    IN  CASE Len(parts) = 1 -> [token |-> parts[1], cookie |-> <<>>, err |-> FALSE]
          [] Len(parts) = 2 ->
                IF ~HasPrefix(parts[1], XoxcPrefix)
                THEN [token |-> <<>>, cookie |-> <<>>, err |-> TRUE]
                ELSE IF parts[2] = <<>>
                THEN [token |-> <<>>, cookie |-> <<>>, err |-> TRUE]
                ELSE IF ~HasPrefix(parts[2], CookiePrefix)
                THEN [token |-> <<>>, cookie |-> <<>>, err |-> TRUE]
                ELSE [token |-> parts[1], cookie |-> parts[2], err |-> FALSE]
          [] OTHER -> [token |-> <<>>, cookie |-> <<>>, err |-> TRUE]

\* passwordToTokenAndCookie: (token, cookie, err)
passwordToTokenAndCookie(p) ==
    LET parts == Split(p, "|")
    IN  CASE Len(parts) = 1 -> [token |-> parts[1], cookie |-> <<>>, err |-> FALSE]
          [] Len(parts) = 2 ->
                IF ~HasPrefix(parts[1], XoxcPrefix)
                THEN [token |-> <<>>, cookie |-> <<>>, err |-> TRUE]
                ELSE IF parts[2] = <<>>
                THEN [token |-> <<>>, cookie |-> <<>>, err |-> TRUE]
                ELSE IF ~HasPrefix(parts[2], CookiePrefix) \/ ~HasSuffix(parts[2], CookieSuffix)
                THEN [token |-> <<>>, cookie |-> <<>>, err |-> TRUE]
                ELSE [token |-> parts[1], cookie |-> parts[2], err |-> FALSE]
          [] OTHER -> [token |-> <<>>, cookie |-> <<>>, err |-> TRUE]


(***************************************************************************)
(* The Slack workspace the gateway talks to (upstream data).               *)
(***************************************************************************)
\* a public channel the user is a member of, a private channel the user is not
\* a member of, and a multi-party IM; Members is the field of that name of
\* slack.Channel, as the upstream filled it
ChanC1 == [ID |-> <<"C", "1">>, Name |-> <<"g">>, IsMember |-> TRUE,
           Members |-> <<<<"U", "1">>, <<"U", "2">>>>,
           IsChannel |-> TRUE, IsGroup |-> FALSE, IsPrivate |-> FALSE, IsMpIM |-> FALSE]
ChanC2 == [ID |-> <<"C", "2">>, Name |-> <<"r">>, IsMember |-> FALSE,
           Members |-> <<>>,
           IsChannel |-> FALSE, IsGroup |-> TRUE, IsPrivate |-> TRUE, IsMpIM |-> FALSE]
ChanG3 == [ID |-> <<"G", "3">>,
           Name |-> <<"m", "p", "d", "m", "-", "a", "-", "-", "b", "-", "1">>,
           IsMember |-> TRUE, Members |-> <<>>,
           IsChannel |-> FALSE, IsGroup |-> TRUE, IsPrivate |-> FALSE, IsMpIM |-> TRUE]

\* Channel.IsPublicChannel, Channel.IsPrivateChannel, Channel.IsMP
IsPublicChannel(c) == c.IsChannel /\ ~c.IsPrivate
IsPrivateChannel(c) == (c.IsGroup \/ c.IsChannel) /\ c.IsPrivate
IsMP(c) == c.IsMpIM

\* the conversations list, as the pages GetConversations returns them
SlackPages == <<{ChanC1}, {ChanC2}>>

SlackChannels == UNION {SlackPages[i] : i \in 1..Len(SlackPages)}

\* every conversation GetConversationInfo knows: the list asks for public and
\* private channels only
SlackConversations == SlackChannels \cup {ChanG3}

\* the own user record returned by GetUserInfo
SlackNick == <<"b", "o", "b">>
SlackRealName == <<"B">>

\* the users of the workspace; BotID is Profile.BotID, empty for a person
UserU1 == [ID |-> <<"U", "1">>, Name |-> <<"a", "n", "n">>, BotID |-> <<>>]
UserU2 == [ID |-> <<"U", "2">>, Name |-> <<"j", "o", "e">>, BotID |-> <<>>]

\* the own user as a member of the workspace
SelfUser == [ID |-> <<"U", "0">>, Name |-> SlackNick, BotID |-> <<>>]

SlackUsers == {UserU1, UserU2}

\* the members of each conversation
ChanMembers(id) == IF id = ChanC1.ID THEN {UserU1} ELSE {UserU2}

(***************************************************************************)
(* IRC lines a client sends, already split by HandleMsg into command,      *)
(* arguments and trailing text.                                            *)
(***************************************************************************)
Line(cmd, args, trailing) == [cmd |-> cmd, args |-> args, trailing |-> trailing]

ClientNick == <<"n">>

ClientLines ==
    { Line("NICK", <<ClientNick>>, <<>>),
      Line("USER", <<<<"u">>, <<"0">>, <<"*">>>>, <<"R">>),
      Line("PASS", <<PwLegacy>>, <<>>),
      Line("PASS", <<PwThree>>, <<>>),
      Line("QUIT", <<>>, <<>>),
      Line("PING", <<<<"x">>>>, <<>>),
      Line("PRIVMSG", <<<<"#", "g">>>>, <<"h", "i">>) }

(***************************************************************************)
(* State.                                                                  *)
(***************************************************************************)
VARIABLES
    \* the client side of the socket
    wire,           \* lines sent by the client, not yet read by the server
    sent,           \* number of lines the client has sent
    peerClosed,     \* the client has closed its end
    \* Server.HandleRequest
    rbuf,           \* lines held by the bufio.Reader of the read loop
    readerPc,       \* "run" | "done"
    inIndex,        \* UserContexts holds the connection's entry
    connOpen,       \* Conn has not been closed by the server
    \* IrcContext
    OrigName, RealName, SlackAPIKey,
    slackClient,    \* SlackClient # nil
    usingLegacyToken,
    userSet,        \* User # nil
    SlackConnected,
    Channels,       \* [nil |-> BOOLEAN, map |-> set of [key, val]]
    Users,          \* [nil |-> BOOLEAN, map |-> set of [key, val]]
    \* tasks of the connection
    evPc,           \* eventHandler: "off" | "run" | "clearing" | "done"
    evCount,        \* events delivered so far
    burst,          \* join-burst task per channel id: 0 none, 1..4 next write, 5 done
    \* IrcContext.Start (outbound batcher)
    batcherStarted,
    textBuffer,     \* map target -> text: set of [key, val]
    message,        \* the last SlackPostMessage received
    timerArmed,
    timerLeft,      \* the ticks until the batcher's timer expires
    \* the process
    crashed,        \* a goroutine panicked
    \* history (ghost)
    out,            \* writes attempted on the client socket
    hist,           \* lines handled, each with whether connectToSlack ran
    logins,         \* one record per connectToSlack invocation
    accepted,       \* messages received by the batcher
    posts,          \* PostMessage calls issued by the batcher
    \* one call of Users.FetchByIDs or Channels.FetchByIDs
    fbKind,         \* "none" | "users" | "channels"
    fbPc,           \* "idle" | "loop" | "done"
    fbIDs,          \* the ids asked for
    fbSkip,         \* skipCache
    fbToRetrieve, fbAlready, fbFetched,
    fbI,            \* index of the current batch in toRetrieve (from 0)
    fbAttempt,      \* the variable `attempt`
    fbCalls,        \* upstream calls issued for the current batch (ghost)
    fbRet,          \* the returned (values, error)
    \* one call of ChannelMembers
    cmPc,           \* "idle" | "page" | "users" | "done"
    cmPages,        \* the conversation's member pages upstream
    cmCursor,       \* nextCursor: 0 is the empty cursor, k the cursor of page k + 1
    cmAttempt,      \* the variable `attempt`
    cmCalls,        \* GetUsersInConversation calls issued so far, per page asked for (ghost)
    cmMembers,      \* the variable `members`
    cmRet,          \* the returned (users, error)
    \* the upstream and the events handled
    upUsers,        \* the users of the workspace, as the upstream has them now
    evLog,          \* what the tasks did with the inputs they handled (ghost)
    \* one application of a pure function
    fnArg,          \* its argument
    fnRes,          \* its result, once applied
    \* the process-wide connection index and the connections that use it
    UserContexts,   \* the remote addresses that have an entry
    hrPc,           \* where each connection's HandleRequest task is
    hrLines         \* the lines each connection's task has read

netVars == <<wire, sent, peerClosed>>
readerVars == <<rbuf, readerPc, inIndex>>
ctxVars == <<OrigName, RealName, SlackAPIKey, slackClient, usingLegacyToken, userSet>>
cacheVars == <<Channels, Users>>
taskVars == <<evPc, evCount, burst, SlackConnected>>
batchVars == <<batcherStarted, textBuffer, message, timerArmed, timerLeft, accepted,
               posts>>
connVars == <<netVars, readerVars, connOpen, ctxVars, cacheVars, taskVars, crashed,
              out, hist, logins>>

fbVars == <<fbKind, fbPc, fbIDs, fbSkip, fbToRetrieve, fbAlready, fbFetched, fbI,
           fbAttempt, fbCalls, fbRet>>
cmVars == <<cmPc, cmPages, cmCursor, cmAttempt, cmCalls, cmMembers, cmRet>>
algoVars == <<fbVars, cmVars>>

evVars == <<upUsers, evLog>>
fnVars == <<fnArg, fnRes>>
idxVars == <<UserContexts, hrPc, hrLines>>
extVars == <<evVars, fnVars, idxVars>>

vars == <<connVars, batchVars, algoVars, extVars>>

(***************************************************************************)
(* Caches.                                                                 *)
(***************************************************************************)
\* map assignment m[k] = v
MapPut(m, k, v) == {e \in m : e.key # k} \cup {[key |-> k, val |-> v]}

\* NewChannels / NewUsers
NewChannels == [nil |-> FALSE, map |-> {}]
NewUsers == [nil |-> FALSE, map |-> {}]
NilCache == [nil |-> TRUE, map |-> {}]

ChannelPrefixes == {"#", "@", "&", "+"}

HasChannelPrefix(name) == name # <<>> /\ Head(name) \in ChannelPrefixes

\* Channels.ByName: the set of matching channels (empty: nil)
ChannelsByName(c, name) ==
    LET key == IF HasChannelPrefix(name) THEN Tail(name) ELSE name
    IN  {e.val : e \in {x \in c.map : x.key = key}}

\* Channels.ByID: the channels a scan of the map can return (empty: nil)
ChannelsByID(c, id) == {e.val : e \in {x \in c.map : x.val.ID = id}}

\* the map Channels.Fetch builds from the pages it was given: keyed by Slack name
FetchedMap(pages) ==
    {[key |-> ch.Name, val |-> ch] :
        ch \in UNION {SlackPages[i] : i \in 1..pages}}

(***************************************************************************)
(* Writes on the client socket.  Every Conn.Write is attempted whatever    *)
(* the state of the socket (an error is only logged); `open` records       *)
(* whether the socket was still open when the write was attempted.         *)
(***************************************************************************)
W(by, kind, arg, open) == [by |-> by, kind |-> kind, arg |-> arg, open |-> open]

Unknown == <<"?">>

\* IrcContext.Nick
Nick(user) == IF user THEN SlackNick ELSE Unknown

\* the MOTD lines of IrcAfterLoggingIn
MotdLines == 7

(***************************************************************************)
(* Login.  The upstream's answers during one connectToSlack are the input  *)
(* o: whether the RTM session became ready within the 10 s deadline,       *)
(* whether GetUserInfo succeeded, how many pages of the conversation list  *)
(* were obtained and whether a page request failed with an error, and for  *)
(* which member channels ChannelMembers succeeded before one failed.       *)
(***************************************************************************)
\* the answers of the upstream to one request
UpstreamAnswers == {"ok", "rate", "err"}

\* the cursor a paginated call returns next to an error
CursorOnError == 0

\* the cursor returned with page number `page` of `pages`
CursorAfter(pages, page) == IF page < Len(pages) THEN page ELSE 0

\* the loop of Channels.Fetch from the request with params.Cursor = cursor, the
\* upstream answering the successive requests with `answers`: the number of
\* pages stored, whether a request failed with an error that is no rate limit,
\* and whether one was rate-limited
RECURSIVE ChannelsFetchLoop(_, _, _)
ChannelsFetchLoop(cursor, answers, pages) ==
    LET nextCursor == IF Head(answers) = "ok" THEN CursorAfter(SlackPages, cursor + 1)
                      ELSE CursorOnError
        stored == IF Head(answers) = "ok" THEN pages + 1 ELSE pages
    IN  IF nextCursor = 0
        THEN [pages |-> stored, fetchErr |-> Head(answers) = "err",
              fetchRate |-> Head(answers) = "rate"]
        ELSE ChannelsFetchLoop(nextCursor, Tail(answers), stored)

\* the answers to the requests one Channels.Fetch makes
FetchAnswers ==
    {a \in UNION {[1..n -> UpstreamAnswers] : n \in 1..Len(SlackPages)} :
        /\ \A i \in 1..(Len(a) - 1) : a[i] = "ok"
        /\ a[Len(a)] = "ok" => Len(a) = Len(SlackPages)}

LoginOutcomes ==
    {o \in [rtmReady : BOOLEAN, userOk : BOOLEAN,
            pages : 0..Len(SlackPages), fetchErr : BOOLEAN, fetchRate : BOOLEAN,
            joined : SUBSET SlackChannels, joinFail : BOOLEAN] :
        \E a \in FetchAnswers :
            ChannelsFetchLoop(0, a, 0) = [pages |-> o.pages, fetchErr |-> o.fetchErr,
                                         fetchRate |-> o.fetchRate]}

\* Channels.Fetch: the error it returns and the cache it leaves
ChannelsFetch(o) ==
    [err |-> FALSE, cache |-> [nil |-> FALSE, map |-> FetchedMap(o.pages)]]

\* the channels joinChannels calls joinChannel for
MemberChannels(c) ==
    {e.val : e \in {x \in c.map : /\ IsPublicChannel(x.val) \/ IsPrivateChannel(x.val)
                                  /\ x.val.IsMember}}

\* joinChannels stops at the first joinChannel that fails
JoinOutcomeOk(o, c) ==
    /\ o.joined \subseteq MemberChannels(c)
    /\ o.joinFail <=> (o.joined # MemberChannels(c))

\* IrcAfterLoggingIn
IrcAfterLoggingIn(o, orig, open, c, u) ==
    LET by == "reader"
        nickLine == IF orig # Nick(TRUE) THEN <<W(by, "NICK", <<>>, open)>> ELSE <<>>
        motd == [i \in 1..MotdLines |-> W(by, "372", <<>>, open)]
        welcome == nickLine \o <<W(by, "001", <<>>, open), W(by, "375", <<>>, open),
                                 W(by, "005", <<>>, open)>>
                     \o motd \o <<W(by, "376", <<>>, open)>>
        joinErr == IF o.joinFail THEN <<W(by, "400", <<>>, open)>> ELSE <<>>
    IN  [err |-> o.joinFail,
         writes |-> welcome \o joinErr,
         spawned |-> {ch.ID : ch \in o.joined},
         users |-> [u EXCEPT !.map = @ \cup
                      {[key |-> x.ID, val |-> x] :
                          x \in UNION {ChanMembers(ch.ID) : ch \in o.joined}}],
         ev |-> ~o.joinFail]

\* connectToSlack with ctx.SlackAPIKey = key and ctx.OrigName = orig
connectToSlack(o, key, orig, real, open) ==
    LET p == passwordToTokenAndCookie(key)
        base == [err |-> TRUE, step |-> "parse", fetchErr |-> FALSE, fetchRate |-> FALSE,
                 client |-> slackClient, legacy |-> usingLegacyToken,
                 user |-> userSet, real |-> real, chans |-> Channels, users |-> Users,
                 writes |-> <<>>, spawned |-> {}, ev |-> FALSE, closed |-> FALSE]
        started == [base EXCEPT !.client = TRUE,
                                !.legacy = (usingLegacyToken \/ p.cookie = <<>>)]
        f == ChannelsFetch(o)
        a == IrcAfterLoggingIn(o, orig, open, f.cache, Users)
    IN  IF p.err THEN base
        ELSE IF ~o.rtmReady THEN [started EXCEPT !.step = "timeout"]
        ELSE IF ~o.userOk THEN [started EXCEPT !.step = "user"]
        ELSE IF f.err
        THEN [started EXCEPT !.step = "fetch", !.fetchErr = o.fetchErr,
                             !.fetchRate = o.fetchRate, !.user = TRUE,
                             !.real = SlackRealName, !.closed = TRUE]
        ELSE [started EXCEPT !.err = a.err,
                             !.step = IF a.err THEN "members" ELSE "ok",
                             !.fetchErr = o.fetchErr, !.fetchRate = o.fetchRate,
                             !.user = TRUE, !.real = SlackRealName,
                             !.chans = f.cache, !.users = a.users,
                             !.writes = a.writes, !.spawned = a.spawned, !.ev = a.ev]

\* the outcomes that are possible answers for this connectToSlack
ValidOutcome(o) == JoinOutcomeOk(o, ChannelsFetch(o).cache)

\* the state after a handler called connectToSlack and closed the socket on error
ApplyConnect(r, l) ==
    /\ slackClient' = r.client
    /\ usingLegacyToken' = r.legacy
    /\ userSet' = r.user
    /\ RealName' = r.real
    /\ Channels' = r.chans
    /\ Users' = r.users
    /\ out' = out \o r.writes
    /\ burst' = [c \in DOMAIN burst |-> IF c \in r.spawned THEN 1 ELSE burst[c]]
    /\ evPc' = IF r.ev THEN "run" ELSE evPc
    /\ connOpen' = (connOpen /\ ~r.closed /\ ~r.err)
    /\ logins' = Append(logins, [step |-> r.step, fetchErr |-> r.fetchErr,
                                 fetchRate |-> r.fetchRate])
    /\ hist' = Append(hist, [line |-> l, connect |-> TRUE])

\* the state after a handler that did not call connectToSlack and wrote ws
ApplyPlain(l, ws) ==
    /\ out' = out \o ws
    /\ hist' = Append(hist, [line |-> l, connect |-> FALSE])
    /\ UNCHANGED <<slackClient, usingLegacyToken, userSet, cacheVars, burst, evPc,
                   connOpen, logins>>

(***************************************************************************)
(* Outbound batcher: IrcContext.Start and PostTextMessage.                 *)
(***************************************************************************)
MapGet(m, k, default) ==
    IF \E e \in m : e.key = k THEN (CHOOSE e \in m : e.key = k).val ELSE default

SlackPostMessage(target, ts, text) == [Target |-> target, TargetTs |-> ts, Text |-> text]

NoMessage == SlackPostMessage(<<>>, <<>>, <<>>)

\* a buffer that keeps only the latest text of a target
BufferOverwrite(buf, m) == MapPut(buf, m.Target, m.Text \o <<"\n">>)

\* case message = <-ic.postMessage: the buffer after the message was received
BufferAppend(buf, m) == MapPut(buf, m.Target, MapGet(buf, m.Target, <<>>) \o m.Text \o <<"\n">>)

\* the thread timestamp option of a post: that of the variable `message`
PostTs(last, target) == last.TargetTs

\* case <-timer.C: the PostMessage calls issued for the buffer, in any order
FlushPosts(buf, last, ended) ==
    {[target |-> e.key, text |-> TrimSpace(e.val), ts |-> PostTs(last, e.key),
      upto |-> Len(accepted), ended |-> ended] : e \in buf}

\* PostTextMessage, received by the batcher task
\* time.NewTimer(time.Second), timer.Reset(time.Second): the period in ticks
TimerTicks == 2

PostTextMessage(target, text, ts) ==
    LET m == SlackPostMessage(target, ts, text)
    IN  /\ message' = m
        /\ textBuffer' = BufferAppend(textBuffer, m)
        /\ timerArmed' = TRUE
        /\ timerLeft' = TimerTicks
        /\ accepted' = Append(accepted, m)

\* strings.Join(tokens, " ")
RECURSIVE JoinSpace(_)
JoinSpace(tokens) ==
    IF tokens = <<>> THEN <<>>
    ELSE IF Len(tokens) = 1 THEN tokens[1]
    ELSE tokens[1] \o <<" ">> \o JoinSpace(Tail(tokens))

MentionHere == <<"@", "h", "e", "r", "e">>
MentionChannel == <<"@", "c", "h", "a", "n", "n", "e", "l">>
MentionEveryone == <<"@", "e", "v", "e", "r", "y", "o", "n", "e">>

\* parseMentions
parseMentions(text) ==
    LET tokens == Split(text, " ")
        conv(t) == IF t = MentionHere THEN <<"<", "!", "h", "e", "r", "e", ">">>
                   ELSE IF t = MentionChannel
                   THEN <<"<", "!", "c", "h", "a", "n", "n", "e", "l", ">">>
                   ELSE IF t = MentionEveryone
                   THEN <<"<", "!", "e", "v", "e", "r", "y", "o", "n", "e", ">">>
                   ELSE IF HasPrefix(t, <<"@">>) THEN <<"<">> \o t \o <<">">>
                   ELSE t
    IN  JoinSpace([i \in 1..Len(tokens) |-> conv(tokens[i])])

\* getTargetTs
getTargetTs(channelName) ==
    IF ~HasPrefix(channelName, <<"+">>) THEN <<>>
    ELSE LET parts == Split(channelName, "-") IN parts[Len(parts)]

(***************************************************************************)
(* The client.                                                             *)
(***************************************************************************)
ClientSend(l) ==
    /\ ~crashed /\ ~peerClosed /\ sent < MaxLines
    /\ wire' = Append(wire, l)
    /\ sent' = sent + 1
    /\ UNCHANGED <<peerClosed, readerVars, connOpen, ctxVars, cacheVars, taskVars,
                   crashed, out, hist, logins, batchVars, algoVars, extVars>>

ClientClose ==
    /\ ~crashed /\ ~peerClosed
    /\ peerClosed' = TRUE
    /\ UNCHANGED <<wire, sent, readerVars, connOpen, ctxVars, cacheVars, taskVars,
                   crashed, out, hist, logins, batchVars, algoVars, extVars>>

(***************************************************************************)
(* Server.HandleRequest: the read loop.  reader.ReadString returns a line  *)
(* of the bufio buffer when it holds one, without touching the socket;     *)
(* otherwise it reads the socket, which takes what has arrived, and fails  *)
(* when the socket was closed or the client has gone.                      *)
(***************************************************************************)
CanRead ==
    /\ ~crashed /\ readerPc = "run"
    /\ rbuf # <<>> \/ (connOpen /\ wire # <<>>)

NextLine == IF rbuf # <<>> THEN Head(rbuf) ELSE Head(wire)

\* the line is taken; HandleMsg finds or creates the context and starts its batcher
Consume ==
    /\ rbuf' = IF rbuf # <<>> THEN Tail(rbuf) ELSE Tail(wire)
    /\ wire' = IF rbuf # <<>> THEN wire ELSE <<>>
    /\ inIndex' = TRUE
    /\ batcherStarted' = TRUE
    /\ UNCHANGED <<sent, peerClosed, readerPc>>

\* the read fails: the entry is deleted, the loop ends, the deferred Close runs
ReadError ==
    /\ ~crashed /\ readerPc = "run" /\ rbuf = <<>>
    /\ ~connOpen \/ (peerClosed /\ wire = <<>>)
    /\ inIndex' = FALSE
    /\ readerPc' = "done"
    /\ connOpen' = FALSE
    /\ UNCHANGED <<netVars, rbuf, ctxVars, cacheVars, taskVars, crashed, out, hist,
                   logins, batchVars, algoVars, extVars>>

(***************************************************************************)
(* Command handlers, each run by the read loop for the line it took.       *)
(***************************************************************************)
\* "If we're ready, connect": the guard of each of the three handlers
NickReady(real, key) == real # <<>> /\ key # <<>>

\* a USER guard that does not wait for the nick
UserReadyNoNick(client, key, orig) == ~client /\ key # <<>>

UserReady(client, key, orig) == ~client /\ key # <<>> /\ orig # <<>>

PassReady(client, real, orig) == ~client /\ real # <<>> /\ orig # <<>>

\* IrcNickHandler
IrcNickHandler(l) ==
    LET nick == IF Len(l.args) = 1 THEN l.args[1] ELSE l.trailing
    IN  IF nick = <<>>
        THEN /\ ApplyPlain(l, <<>>)
             /\ UNCHANGED <<OrigName, RealName, SlackAPIKey>>
        ELSE IF slackClient
        THEN /\ ApplyPlain(l, IF nick # Nick(userSet)
                              THEN <<W("reader", "NICK", <<>>, connOpen)>> ELSE <<>>)
             /\ UNCHANGED <<OrigName, RealName, SlackAPIKey>>
        ELSE /\ OrigName' = nick
             /\ UNCHANGED SlackAPIKey
             /\ IF NickReady(RealName, SlackAPIKey)
                THEN \E o \in LoginOutcomes :
                        /\ ValidOutcome(o)
                        /\ ApplyConnect(connectToSlack(o, SlackAPIKey, nick, RealName,
                                                       connOpen), l)
                ELSE ApplyPlain(l, <<>>) /\ UNCHANGED RealName

\* IrcUserHandler
IrcUserHandler(l) ==
    /\ UNCHANGED <<OrigName, SlackAPIKey>>
    /\ IF UserReady(slackClient, SlackAPIKey, OrigName)
       THEN \E o \in LoginOutcomes :
               /\ ValidOutcome(o)
               /\ ApplyConnect(connectToSlack(o, SlackAPIKey, OrigName, l.trailing,
                                              connOpen), l)
       ELSE ApplyPlain(l, <<>>) /\ RealName' = l.trailing

\* IrcPassHandler
IrcPassHandler(l) ==
    IF Len(l.args) # 1
    THEN /\ ApplyPlain(l, <<W("reader", "464", <<>>, connOpen)>>)
         /\ UNCHANGED <<OrigName, RealName, SlackAPIKey>>
    ELSE /\ SlackAPIKey' = l.args[1]
         /\ UNCHANGED OrigName
         /\ IF PassReady(slackClient, RealName, OrigName)
            THEN \E o \in LoginOutcomes :
                    /\ ValidOutcome(o)
                    /\ ApplyConnect(connectToSlack(o, l.args[1], OrigName, RealName,
                                                   connOpen), l)
            ELSE ApplyPlain(l, <<>>) /\ UNCHANGED RealName

\* IrcQuitHandler
IrcQuitHandler(l) ==
    /\ connOpen' = FALSE
    /\ hist' = Append(hist, [line |-> l, connect |-> FALSE])
    /\ UNCHANGED <<ctxVars, cacheVars, burst, evPc, out, logins>>

\* IrcPingHandler
IrcPingHandler(l) ==
    /\ ApplyPlain(l, <<W("reader", "PONG", <<>>, connOpen)>>)
    /\ UNCHANGED <<OrigName, RealName, SlackAPIKey>>

DoNick ==
    /\ CanRead /\ NextLine.cmd = "NICK" /\ Consume
    /\ IrcNickHandler(NextLine)
    /\ UNCHANGED <<evCount, SlackConnected, crashed, textBuffer, message, timerArmed, timerLeft,
                   accepted, posts, algoVars, extVars>>

DoUser ==
    /\ CanRead /\ NextLine.cmd = "USER" /\ Consume
    /\ IrcUserHandler(NextLine)
    /\ UNCHANGED <<evCount, SlackConnected, crashed, textBuffer, message, timerArmed, timerLeft,
                   accepted, posts, algoVars, extVars>>

DoPass ==
    /\ CanRead /\ NextLine.cmd = "PASS" /\ Consume
    /\ IrcPassHandler(NextLine)
    /\ UNCHANGED <<evCount, SlackConnected, crashed, textBuffer, message, timerArmed, timerLeft,
                   accepted, posts, algoVars, extVars>>

DoQuit ==
    /\ CanRead /\ NextLine.cmd = "QUIT" /\ Consume
    /\ IrcQuitHandler(NextLine)
    /\ UNCHANGED <<evCount, SlackConnected, crashed, textBuffer, message, timerArmed, timerLeft,
                   accepted, posts, algoVars, extVars>>

DoPing ==
    /\ CanRead /\ NextLine.cmd = "PING" /\ Consume
    /\ IrcPingHandler(NextLine)
    /\ UNCHANGED <<evCount, SlackConnected, crashed, textBuffer, message, timerArmed, timerLeft,
                   accepted, posts, algoVars, extVars>>


ActionPrefix == <<"^A", "A", "C", "T", "I", "O", "N", " ">>
ActionSuffix == <<"^A">>

\* IrcPrivMsgHandler: what it hands to PostTextMessage, or nothing
\* ([send |-> FALSE]) when it returns early
PrivMsgTarget(c, l) ==
    LET param == IF Len(l.args) \in {1, 2} THEN l.args[1] ELSE <<>>
        text == IF Len(l.args) = 1 THEN l.trailing
                ELSE IF Len(l.args) = 2 THEN l.args[2] ELSE <<>>
        found == ChannelsByName(c, param)
        target == IF found # {} THEN (CHOOSE ch \in found : TRUE).Name
                  ELSE <<"@">> \o param
        isAction == HasPrefix(text, ActionPrefix) /\ HasSuffix(text, ActionSuffix)
        found2 == ChannelsByName(c, target)
        none == [send |-> FALSE, target |-> <<>>, text |-> <<>>, ts |-> <<>>]
    IN  IF param = <<>> \/ text = <<>> THEN none
        ELSE IF isAction /\ found2 = {} THEN none
        ELSE IF isAction
        THEN [send |-> TRUE, target |-> (CHOOSE ch \in found2 : TRUE).Name,
              text |-> parseMentions(<<"_">> \o SubSeq(text, Len(ActionPrefix) + 1,
                                                       Len(text) - 1) \o <<"_">>),
              ts |-> getTargetTs(param)]
        ELSE [send |-> TRUE, target |-> target, text |-> parseMentions(text),
              ts |-> getTargetTs(param)]

DoPrivmsg ==
    /\ CanRead /\ NextLine.cmd = "PRIVMSG" /\ Consume
    /\ hist' = Append(hist, [line |-> NextLine, connect |-> FALSE])
    /\ UNCHANGED <<connOpen, ctxVars, cacheVars, taskVars, out, logins, algoVars, extVars>>
    /\ LET needsCache == Len(NextLine.args) \in {1, 2} /\ NextLine.args[1] # <<>>
                         /\ (Len(NextLine.args) = 2 \/ NextLine.trailing # <<>>)
       IN  IF needsCache /\ Channels.nil
           THEN \* ctx.Channels.ByName on a nil *Channels
                /\ crashed' = TRUE
                /\ UNCHANGED <<textBuffer, message, timerArmed, timerLeft, accepted, posts>>
           ELSE LET m == PrivMsgTarget(Channels, NextLine)
                IN  /\ UNCHANGED crashed
                    /\ IF m.send
                       THEN PostTextMessage(m.target, m.text, m.ts) /\ UNCHANGED posts
                       ELSE UNCHANGED <<textBuffer, message, timerArmed, timerLeft, accepted, posts>>

(***************************************************************************)
(* The batcher's timer case.                                               *)
(***************************************************************************)
\* the orders in which a range over a map can visit its entries
Orders(S) == {q \in [1..Cardinality(S) -> S] : \A e \in S : \E i \in DOMAIN q : q[i] = e}

ConnectionEnded == readerPc = "done" /\ ~connOpen /\ ~inIndex

TimerFire ==
    /\ ~crashed /\ batcherStarted /\ timerArmed
    /\ timerArmed' = FALSE
    /\ UNCHANGED timerLeft
    /\ textBuffer' = {}
    /\ IF textBuffer # {} /\ ~slackClient
       THEN \* ic.SlackClient.PostMessage on a nil *slack.Client
            crashed' = TRUE /\ UNCHANGED posts
       ELSE /\ UNCHANGED crashed
            /\ \E q \in Orders(FlushPosts(textBuffer, message, ConnectionEnded)) :
                   posts' = posts \o q
    /\ UNCHANGED <<netVars, readerVars, connOpen, ctxVars, cacheVars, taskVars, out,
                   hist, logins, batcherStarted, message, accepted, algoVars, extVars>>

(***************************************************************************)
(* Join-burst tasks: go IrcSendChanInfoAfterJoin(ctx, ch, members).        *)
(***************************************************************************)
BurstKinds == <<"JOIN", "332", "353", "366">>

ChanByID(id) == CHOOSE ch \in SlackChannels : ch.ID = id

\* strings.Replace(s, old, new, -1)
RECURSIVE ReplaceAll(_, _, _)
ReplaceAll(s, old, new) ==
    IF s = <<>> THEN <<>>
    ELSE IF HasPrefix(s, old)
    THEN new \o ReplaceAll(SubSeq(s, Len(old) + 1, Len(s)), old, new)
    ELSE <<Head(s)>> \o ReplaceAll(Tail(s), old, new)

UnknownChannelType == <<"<unknow-channel-type>">>

\* Channel.IRCName
IRCName(ch) ==
    IF IsPublicChannel(ch) THEN <<"#">> \o ch.Name
    ELSE IF IsPrivateChannel(ch) THEN <<"@">> \o ch.Name
    ELSE IF IsMP(ch)
    THEN LET name == ReplaceAll(ReplaceAll(<<"&">> \o ch.ID \o <<"|">> \o ch.Name,
                                           <<"m", "p", "d", "m", "-">>, <<>>),
                                <<"-", "-">>, <<"-">>)
         IN  IF Len(name) >= 30 THEN SubSeq(name, 1, 29) \o <<"...">> ELSE name
    ELSE UnknownChannelType

BurstWrite(c) ==
    /\ ~crashed /\ burst[c] \in 1..4
    /\ out' = Append(out, W("burst", BurstKinds[burst[c]], IRCName(ChanByID(c)), connOpen))
    /\ burst' = [burst EXCEPT ![c] = @ + 1]
    /\ UNCHANGED <<netVars, readerVars, connOpen, ctxVars, cacheVars, evPc, evCount,
                   SlackConnected, crashed, hist, logins, batchVars, algoVars, extVars>>

(***************************************************************************)
(* eventHandler: one action per RTM event it takes from IncomingEvents.    *)
(***************************************************************************)
EvTake == ~crashed /\ evPc = "run" /\ evCount < MaxEvents

\* MessageEvent for conversation c: printMessage resolves the name (fetching the
\* conversation on a cache miss) and writes the PRIVMSG
EvMessage(c) ==
    /\ EvTake
    /\ evCount' = evCount + 1
    /\ IF ChannelsByID(Channels, c.ID) # {}
       THEN /\ out' = Append(out, W("event", "PRIVMSG", IRCName(c), connOpen))
            /\ UNCHANGED Channels
       ELSE \E fetched \in BOOLEAN :
               IF fetched
               THEN /\ Channels' = [Channels EXCEPT !.map = MapPut(@, c.ID, c)]
                    /\ out' = Append(out, W("event", "PRIVMSG", IRCName(c), connOpen))
               ELSE /\ UNCHANGED Channels
                    /\ out' = out \o <<W("event", "400", <<>>, connOpen),
                                      W("event", "PRIVMSG", <<>>, connOpen)>>
    /\ UNCHANGED <<netVars, readerVars, connOpen, ctxVars, Users, evPc, burst,
                   SlackConnected, crashed, hist, logins, batchVars, algoVars, extVars>>

\* ConnectedEvent
EvConnected ==
    /\ EvTake
    /\ evCount' = evCount + 1
    /\ SlackConnected' = TRUE
    /\ UNCHANGED <<netVars, readerVars, connOpen, ctxVars, cacheVars, evPc, burst,
                   crashed, out, hist, logins, batchVars, algoVars, extVars>>

\* DisconnectedEvent, first statements: SlackConnected = false; Conn.Close()
EvDisconnectClose ==
    /\ EvTake
    /\ evCount' = evCount + 1
    /\ SlackConnected' = FALSE
    /\ connOpen' = FALSE
    /\ evPc' = "clearing"
    /\ UNCHANGED <<netVars, readerVars, ctxVars, cacheVars, burst, crashed, out, hist,
                   logins, batchVars, algoVars, extVars>>

\* DisconnectedEvent, last statements: Users, Channels = nil, nil; return
EvDisconnectClear ==
    /\ ~crashed /\ evPc = "clearing"
    /\ Users' = NilCache
    /\ Channels' = NilCache
    /\ evPc' = "done"
    /\ UNCHANGED <<netVars, readerVars, connOpen, ctxVars, evCount, burst,
                   SlackConnected, crashed, out, hist, logins, batchVars, algoVars, extVars>>

(***************************************************************************)
(* The connection: specification Spec.                                     *)
(***************************************************************************)
BatchInit ==
    /\ batcherStarted = FALSE
    /\ textBuffer = {}
    /\ message = NoMessage
    /\ timerArmed = TRUE /\ timerLeft = TimerTicks
    /\ accepted = <<>>
    /\ posts = <<>>

ConnInit ==
    /\ wire = <<>> /\ sent = 0 /\ peerClosed = FALSE
    /\ rbuf = <<>> /\ readerPc = "run" /\ inIndex = FALSE
    /\ connOpen = TRUE
    /\ OrigName = <<>> /\ RealName = <<>> /\ SlackAPIKey = <<>>
    /\ slackClient = FALSE /\ usingLegacyToken = FALSE /\ userSet = FALSE
    /\ SlackConnected = FALSE
    /\ Channels = NewChannels /\ Users = NewUsers
    /\ evPc = "off" /\ evCount = 0
    /\ burst = [c \in {ch.ID : ch \in SlackChannels} |-> 0]
    /\ crashed = FALSE
    /\ out = <<>> /\ hist = <<>> /\ logins = <<>>

\* no fetch in progress
AlgoIdle ==
    /\ fbKind = "none" /\ fbPc = "idle" /\ fbIDs = <<>> /\ fbSkip = FALSE
    /\ fbToRetrieve = <<>> /\ fbAlready = <<>> /\ fbFetched = <<>>
    /\ fbI = 0 /\ fbAttempt = 0 /\ fbCalls = 0
    /\ fbRet = [vals |-> <<>>, err |-> FALSE]
    /\ cmPc = "idle" /\ cmPages = <<>> /\ cmCursor = 0 /\ cmAttempt = 0
    /\ cmCalls = <<>> /\ cmMembers = <<>>
    /\ cmRet = [vals |-> <<>>, err |-> FALSE]

\* no pure function under application
NoArg == <<"none">>

\* the upstream as the login found it, nothing logged, no function applied
\* two client connections, neither with a line read nor an entry in the index
Conns == {"a1", "a2"}
IdxIdle ==
    /\ UserContexts = {}
    /\ hrPc = [c \in Conns |-> "idle"]
    /\ hrLines = [c \in Conns |-> 0]

ExtIdle ==
    /\ upUsers = SlackUsers
    /\ evLog = <<>>
    /\ fnArg = NoArg /\ fnRes = NoArg
    /\ IdxIdle

Init == ConnInit /\ BatchInit /\ AlgoIdle /\ ExtIdle

Next ==
    \/ \E l \in ClientLines : ClientSend(l)
    \/ ClientClose
    \/ DoNick
    \/ DoUser
    \/ DoPass
    \/ DoQuit
    \/ DoPing
    \/ DoPrivmsg
    \/ ReadError
    \/ TimerFire
    \/ \E c \in DOMAIN burst : BurstWrite(c)
    \/ \E c \in SlackChannels : EvMessage(c)
    \/ EvConnected
    \/ EvDisconnectClose
    \/ EvDisconnectClear

Spec == Init /\ [][Next]_vars

(***************************************************************************)
(* The login handshake alone: the client and the read loop with its        *)
(* command handlers.  Its behaviours are those behaviours of Spec in       *)
(* which the other tasks take no step.                                     *)
(***************************************************************************)
NextLogin ==
    \/ \E l \in ClientLines : ClientSend(l)
    \/ ClientClose
    \/ DoNick
    \/ DoUser
    \/ DoPass
    \/ DoQuit
    \/ DoPing
    \/ DoPrivmsg
    \/ ReadError

SpecLogin == Init /\ [][NextLogin]_vars

(***************************************************************************)
(* Login properties.                                                       *)
(***************************************************************************)
\* C1: over any sequence of NICK, USER and PASS commands handled for one
\* connection, connectToSlack is invoked at most once.
C1_ConnectAtMostOnce == Len(logins) <= 1

\* a PASS, NICK or USER line that carries a non-empty value
HasValue(l) ==
    \/ l.cmd = "PASS" /\ Len(l.args) = 1 /\ l.args[1] # <<>>
    \/ l.cmd = "NICK" /\ (IF Len(l.args) = 1 THEN l.args[1] ELSE l.trailing) # <<>>
    \/ l.cmd = "USER" /\ l.trailing # <<>>

\* the first k handled lines are k different commands among PASS, NICK and USER,
\* each with a value
HandshakePrefix(k) ==
    /\ k <= Len(hist)
    /\ \A i \in 1..k : HasValue(hist[i].line)
    /\ \A i, j \in 1..k : i # j => hist[i].line.cmd # hist[j].line.cmd

\* C2: for each of the six orders in which PASS, NICK and USER (all with
\* non-empty values) arrive on a fresh connection, connectToSlack is invoked
\* while handling the third of them and not while handling the first two.
C2_ConnectOnThird ==
    \A k \in 1..3 : HandshakePrefix(k) => (hist[k].connect <=> k = 3)

\* the six orders, as sequences of commands
HandshakeOrders ==
    {q \in [1..3 -> {"PASS", "NICK", "USER"}] : \A i, j \in 1..3 : i # j => q[i] # q[j]}

\* C2 witness: USER, then PASS, then NICK were handled and the NICK connected
C2_Witness ==
    /\ HandshakePrefix(3)
    /\ [i \in 1..3 |-> hist[i].line.cmd] = <<"USER", "PASS", "NICK">>
    /\ hist[3].connect
    /\ Cardinality(HandshakeOrders) = 6

\* a login attempt that met a failure of one of its steps
LoginFailed(a) == a.step # "ok" \/ a.fetchErr

\* C3: every failure of a login step ends with the client socket closed and the
\* event handler never started; a failed channel-list fetch does not let the
\* login complete.  Stated for connections with a single login attempt.
C3_FailureClosesSocket ==
    (Len(logins) = 1 /\ LoginFailed(logins[1])) => (~connOpen /\ evPc = "off")

\* C3, the steps whose failure the code does handle: such a failure leaves the
\* socket closed and the event handler not started
C3_Witness ==
    /\ Len(logins) = 1 /\ logins[1].step = "timeout"
    /\ ~connOpen /\ evPc = "off"

(***************************************************************************)
(* Properties of the whole connection.                                     *)
(***************************************************************************)
\* C4: once the socket of a connection has been closed, no task of that
\* connection attempts another write to it.
C4_NoWriteAfterClose == \A i \in DOMAIN out : out[i].open

\* C5: when the event handler processes a DisconnectedEvent, the Users and
\* Channels caches are cleared before the client socket is closed.
C5_CachesClearedBeforeClose ==
    evPc \in {"clearing", "done"} => (Users.nil /\ Channels.nil)

\* C8: after a connection has ended (socket closed, entry removed from the
\* index), its batcher issues no further Slack post.
C8_BatcherStops == \A i \in DOMAIN posts : ~posts[i].ended

(***************************************************************************)
(* The batcher of a logged-in connection: specification SpecBatch.  It     *)
(* starts in the state in which the USER handler, the third of PASS, NICK  *)
(* and USER, has returned from a successful connectToSlack; from there the *)
(* read loop hands PRIVMSG lines to IrcPrivMsgHandler and the timer fires. *)
(***************************************************************************)
MaxMsgs == 3

\* the three lines of a handshake with the password pw
LoginLinesOf(pw) == <<Line("PASS", <<pw>>, <<>>), Line("NICK", <<ClientNick>>, <<>>),
                      Line("USER", <<<<"u">>, <<"0">>, <<"*">>>>, <<"R">>)>>

LoginLines == LoginLinesOf(PwLegacy)

\* the upstream's answers of a login without failure
LoginAllOk ==
    [rtmReady |-> TRUE, userOk |-> TRUE, pages |-> Len(SlackPages), fetchErr |-> FALSE,
     fetchRate |-> FALSE,
     joined |-> {ChanC1}, joinFail |-> FALSE]

\* the state after a login with the password pw that met no failure; the
\* users of `extra` were cached with the members of the joined channels
LoggedInAs(pw, extra) ==
    LET a == IrcAfterLoggingIn(LoginAllOk, ClientNick, TRUE,
                               ChannelsFetch(LoginAllOk).cache, NewUsers)
    IN  /\ wire = <<>> /\ sent = Len(LoginLines) /\ peerClosed = FALSE
        /\ rbuf = <<>> /\ readerPc = "run" /\ inIndex = TRUE
        /\ connOpen = TRUE
        /\ OrigName = ClientNick /\ RealName = SlackRealName /\ SlackAPIKey = pw
        /\ slackClient = TRUE
        /\ usingLegacyToken = (passwordToTokenAndCookie(pw).cookie = <<>>)
        /\ userSet = TRUE
        /\ SlackConnected = FALSE
        /\ Channels = ChannelsFetch(LoginAllOk).cache
        /\ Users = [a.users EXCEPT !.map = @ \cup {[key |-> x.ID, val |-> x] : x \in extra}]
        /\ evPc = "run" /\ evCount = 0
        /\ burst = [c \in {ch.ID : ch \in SlackChannels} |->
                       IF c \in a.spawned THEN 1 ELSE 0]
        /\ crashed = FALSE
        /\ out = a.writes
        /\ hist = [i \in 1..Len(LoginLines) |->
                      [line |-> LoginLinesOf(pw)[i], connect |-> i = Len(LoginLines)]]
        /\ logins = <<[step |-> "ok", fetchErr |-> FALSE, fetchRate |-> FALSE]>>
        /\ batcherStarted = TRUE
        /\ textBuffer = {} /\ message = NoMessage /\ timerArmed = TRUE
        /\ timerLeft = TimerTicks
        /\ accepted = <<>> /\ posts = <<>>

LoggedIn == LoggedInAs(PwLegacy, {})

\* the PRIVMSG lines the client sends in SpecBatch: two to #g, one of them with
\* a trailing space, one to the thread 1 of g, one to r
BatchLines ==
    {Line("PRIVMSG", <<<<"#", "g">>>>, <<"a">>),
     Line("PRIVMSG", <<<<"#", "g">>>>, <<"b", " ">>),
     Line("PRIVMSG", <<<<"+", "g", "-", "1">>>>, <<"a">>),
     Line("PRIVMSG", <<<<"r">>>>, <<"@", "b">>)}

\* the read loop takes the PRIVMSG line l and IrcPrivMsgHandler enqueues it
Enqueue(l) ==
    /\ ~crashed /\ readerPc = "run" /\ connOpen
    /\ Len(accepted) < MaxMsgs
    /\ ~Channels.nil
    /\ LET m == PrivMsgTarget(Channels, l)
       IN  m.send /\ PostTextMessage(m.target, m.text, m.ts)
    /\ hist' = Append(hist, [line |-> l, connect |-> FALSE])
    /\ sent' = sent + 1
    /\ UNCHANGED <<wire, peerClosed, readerVars, connOpen, ctxVars, cacheVars, taskVars,
                   crashed, out, logins, batcherStarted, posts, algoVars, extVars>>

NextBatch ==
    \/ \E l \in BatchLines : Enqueue(l)
    \/ TimerFire

\* the state after a login without failure, no fetch in progress
InitLoggedIn == LoggedIn /\ AlgoIdle /\ ExtIdle

SpecBatch == InitLoggedIn /\ [][NextBatch]_vars

(***************************************************************************)
(* Batcher properties.                                                     *)
(***************************************************************************)
\* the posts of one timer fire share `upto`; the window of post i starts after
\* the messages the previous fire had seen
WindowStart(i) ==
    LET earlier == {posts[j].upto : j \in {k \in DOMAIN posts : posts[k].upto < posts[i].upto}}
    IN  IF earlier = {} THEN 0 ELSE CHOOSE u \in earlier : \A v \in earlier : v <= u

\* the accepted messages lo+1..hi addressed to target, in arrival order
RECURSIVE WindowOf(_, _, _)
WindowOf(target, lo, hi) ==
    IF hi <= lo THEN <<>>
    ELSE WindowOf(target, lo, hi - 1)
         \o (IF accepted[hi].Target = target THEN <<accepted[hi]>> ELSE <<>>)

\* the texts of ms, each followed by a line feed, concatenated
RECURSIVE JoinLines(_)
JoinLines(ms) ==
    IF ms = <<>> THEN <<>> ELSE ms[1].Text \o <<"\n">> \o JoinLines(Tail(ms))

LastFlush ==
    IF posts = <<>> THEN 0
    ELSE CHOOSE u \in {posts[j].upto : j \in DOMAIN posts} :
            \A j \in DOMAIN posts : posts[j].upto <= u

\* C6: when the timer fires with buffered text for several targets, the post
\* for each target carries the thread timestamp of the last command enqueued
\* for that same target (none if that command had none).
C6_PerTargetThreadTs ==
    \A i \in DOMAIN posts :
        LET w == WindowOf(posts[i].target, WindowStart(i), posts[i].upto)
        IN  w # <<>> => posts[i].ts = w[Len(w)].TargetTs

\* C7: under any interleaving of enqueues and timer fires, every accepted text
\* is included in exactly one post, addressed to its own target, and the texts
\* of one target inside a post appear in arrival order: each post is the
\* trimmed concatenation of its target's texts of the window, no window has two
\* posts for one target, every message seen by a fire has its post, and the
\* messages not yet seen are in the buffer.
C7_EachTextPostedOnce ==
    /\ \A i \in DOMAIN posts :
          /\ WindowOf(posts[i].target, WindowStart(i), posts[i].upto) # <<>>
          /\ posts[i].text =
                TrimSpace(JoinLines(WindowOf(posts[i].target, WindowStart(i), posts[i].upto)))
    /\ \A i, j \in DOMAIN posts :
          (posts[i].target = posts[j].target /\ posts[i].upto = posts[j].upto) => i = j
    /\ \A k \in 1..LastFlush :
          \E i \in DOMAIN posts :
              /\ posts[i].target = accepted[k].Target
              /\ WindowStart(i) < k /\ k <= posts[i].upto
    /\ \A k \in (LastFlush + 1)..Len(accepted) :
          MapGet(textBuffer, accepted[k].Target, <<>>)
              = JoinLines(WindowOf(accepted[k].Target, LastFlush, Len(accepted)))
    /\ \A e \in textBuffer :
          WindowOf(e.key, LastFlush, Len(accepted)) # <<>>

\* C7 witness: one fire posted two texts of one target in one post, in arrival
\* order, next to a post for another target
C7_Witness ==
    \E i, j \in DOMAIN posts :
        /\ posts[i].upto = posts[j].upto /\ posts[i].target # posts[j].target
        /\ Len(WindowOf(posts[i].target, WindowStart(i), posts[i].upto)) = 2
        /\ posts[i].text = <<"a", "\n", "b">>

(***************************************************************************)
(* Users.FetchByIDs and Channels.FetchByIDs, one step per upstream call.   *)
(* The two functions differ in the cache they use, in the upstream call    *)
(* and in the size of a batch.                                             *)
(***************************************************************************)
\* the most rate-limit answers in a row the upstream gives to one batch or page
CallCap == 5

\* chunkSize of Users.FetchByIDs
chunkSize == 1000

BatchSize(kind) == IF kind = "users" THEN chunkSize ELSE 1

Min(a, b) == IF a < b THEN a ELSE b

\* the first statement of the body of the retry loop: attempt := 0
AttemptAtLoopTop(prev) == 0

CacheOf(kind) == IF kind = "users" THEN Users ELSE Channels

Upstream(kind) == IF kind = "users" THEN upUsers ELSE SlackConversations

\* the records the upstream returns for a batch of ids, in the order asked
RECURSIVE UpstreamRecords(_, _)
UpstreamRecords(kind, batch) ==
    IF batch = <<>> THEN <<>>
    ELSE LET known == {r \in Upstream(kind) : r.ID = Head(batch)}
         IN  (IF known = {} THEN <<>> ELSE <<CHOOSE r \in known : TRUE>>)
             \o UpstreamRecords(kind, Tail(batch))

\* the map after `cache[r.ID] = r` for every record of rs
RECURSIVE StoreAll(_, _)
StoreAll(m, rs) ==
    IF rs = <<>> THEN m ELSE StoreAll(MapPut(m, Head(rs).ID, Head(rs)), Tail(rs))

\* the last statements of FetchByIDs
FetchResult(ids, already, fetched) ==
    IF Len(ids) # Len(already \o fetched)
    THEN [vals |-> fetched, err |-> TRUE]
    ELSE [vals |-> already \o fetched, err |-> FALSE]

\* FetchByIDs up to its loops: the ids are split by a lookup in the cache
FetchBegin(kind, skip, ids) ==
    LET m == CacheOf(kind).map
        hit(id) == \E e \in m : e.key = id
        hits == SelectSeq(ids, hit)
        misses == SelectSeq(ids, LAMBDA id : ~hit(id))
        toRetrieve == IF skip THEN ids ELSE misses
        already == IF skip THEN <<>> ELSE [i \in 1..Len(hits) |-> MapGet(m, hits[i], <<>>)]
    IN  /\ fbKind' = kind /\ fbIDs' = ids /\ fbSkip' = skip
        /\ fbToRetrieve' = toRetrieve
        /\ fbAlready' = already
        /\ fbFetched' = <<>> /\ fbI' = 0 /\ fbAttempt' = 0 /\ fbCalls' = 0
        /\ IF toRetrieve = <<>>
           THEN fbPc' = "done" /\ fbRet' = FetchResult(ids, already, <<>>)
           ELSE fbPc' = "loop" /\ UNCHANGED fbRet
        /\ UNCHANGED cacheVars

\* one iteration of the retry loop of FetchByIDs for the batch at fbI
FetchIterate(ans) ==
    LET attempt == AttemptAtLoopTop(fbAttempt)
        upperLimit == Min(fbI + BatchSize(fbKind), Len(fbToRetrieve))
        batch == SubSeq(fbToRetrieve, fbI + 1, upperLimit)
        got == UpstreamRecords(fbKind, batch)
        fail == [vals |-> <<>>, err |-> TRUE]
    IN  /\ fbPc = "loop"
        /\ UNCHANGED <<fbKind, fbIDs, fbSkip, fbToRetrieve, fbAlready>>
        /\ IF attempt >= MaxSlackAPIAttempts
           THEN /\ fbPc' = "done" /\ fbRet' = fail /\ fbAttempt' = attempt
                /\ UNCHANGED <<fbFetched, fbI, fbCalls, cacheVars>>
           ELSE /\ ans = "rate" => fbCalls < CallCap
                /\ ans = "ok" /\ fbKind = "channels" => Len(got) = 1
                /\ IF ans = "rate"
                   THEN /\ fbAttempt' = attempt + 1
                        /\ fbCalls' = fbCalls + 1
                        /\ UNCHANGED <<fbPc, fbRet, fbFetched, fbI, cacheVars>>
                   ELSE IF ans = "err"
                   THEN /\ fbPc' = "done" /\ fbRet' = fail /\ fbAttempt' = attempt
                        /\ fbCalls' = fbCalls + 1
                        /\ UNCHANGED <<fbFetched, fbI, cacheVars>>
                   ELSE /\ fbFetched' = fbFetched \o got
                        /\ fbAttempt' = attempt
                        /\ fbI' = fbI + BatchSize(fbKind)
                        /\ IF fbKind = "users"
                           THEN Users' = [Users EXCEPT !.map = StoreAll(@, got)]
                                /\ UNCHANGED Channels
                           ELSE Channels' = [Channels EXCEPT !.map = StoreAll(@, got)]
                                /\ UNCHANGED Users
                        /\ IF fbI' < Len(fbToRetrieve)
                           THEN fbCalls' = 0 /\ UNCHANGED <<fbPc, fbRet>>
                           ELSE /\ fbCalls' = fbCalls + 1
                                /\ fbPc' = "done"
                                /\ fbRet' = FetchResult(fbIDs, fbAlready, fbFetched')

\* everything but the caches and the fetches
otherVars == <<netVars, readerVars, connOpen, ctxVars, taskVars, crashed, out, hist,
               logins, batchVars, extVars>>

\* the ids a caller asks for
UserIDs == {UserU1.ID, UserU2.ID}
ChannelIDs == {ChanC1.ID, ChanC2.ID, ChanG3.ID}
MaxIDs == 2

IDLists(kind) ==
    UNION {[1..n -> IF kind = "users" THEN UserIDs ELSE ChannelIDs] : n \in 1..MaxIDs}

\* a task of the connection calls Users.FetchByIDs
UsersFetchByIDs ==
    /\ fbPc = "idle" /\ cmPc = "idle"
    /\ \E skip \in BOOLEAN, ids \in IDLists("users") : FetchBegin("users", skip, ids)
    /\ UNCHANGED <<otherVars, cmVars>>

\* a task of the connection calls Channels.FetchByIDs
ChannelsFetchByIDs ==
    /\ fbPc = "idle" /\ cmPc = "idle"
    /\ \E skip \in BOOLEAN, ids \in IDLists("channels") : FetchBegin("channels", skip, ids)
    /\ UNCHANGED <<otherVars, cmVars>>

\* the call in progress issues its next upstream call
FetchStep ==
    /\ \E ans \in UpstreamAnswers : FetchIterate(ans)
    /\ UNCHANGED <<otherVars, cmVars>>

\* the caller takes the result
FetchReturn ==
    /\ fbPc = "done" /\ cmPc = "idle"
    /\ fbPc' = "idle"
    /\ UNCHANGED <<fbKind, fbIDs, fbSkip, fbToRetrieve, fbAlready, fbFetched, fbI,
                   fbAttempt, fbCalls, fbRet, cmVars, cacheVars, otherVars>>

NextFetch ==
    \/ UsersFetchByIDs
    \/ ChannelsFetchByIDs
    \/ FetchStep
    \/ FetchReturn

SpecFetch == InitLoggedIn /\ [][NextFetch]_vars

\* C9: Users.FetchByIDs and Channels.FetchByIDs issue at most
\* MaxSlackAPIAttempts upstream calls for one batch; under rate-limit answers
\* only, the function returns an error after the third attempt.
C9_AtMostThreeCallsPerBatch == fbCalls <= MaxSlackAPIAttempts

\* C9 witness side: a call that met no rate limit returned without error
C9_Witness == fbPc = "done" /\ ~fbRet.err /\ fbCalls = 1

(***************************************************************************)
(* ChannelMembers, one step per GetUsersInConversation call, followed by   *)
(* its call of Users.FetchByIDs.  A cursor is the number of the page       *)
(* before the one it asks for; 0 is the empty cursor.                      *)
(***************************************************************************)
MaxPages == 2

\* the member lists of a conversation, as pages of one user id
MemberPagings == UNION {[1..n -> {<<id>> : id \in UserIDs}] : n \in 1..MaxPages}

\* ChannelMembers up to its first call
MembersBegin(pages) ==
    /\ cmPc' = "page"
    /\ cmPages' = pages
    /\ cmCursor' = 0
    /\ cmAttempt' = 0
    /\ cmCalls' = [p \in 1..Len(pages) |-> 0]
    /\ cmMembers' = <<>>
    /\ UNCHANGED cmRet

\* one iteration of the retry loop of ChannelMembers
MembersIterate(ans) ==
    LET page == cmCursor + 1
        fail == [vals |-> <<>>, err |-> TRUE]
    IN  /\ cmPc = "page"
        /\ UNCHANGED cmPages
        /\ IF cmAttempt >= MaxSlackAPIAttempts
           THEN /\ cmPc' = "done" /\ cmRet' = fail
                /\ UNCHANGED <<cmCursor, cmAttempt, cmCalls, cmMembers>>
           ELSE /\ cmCalls[page] < CallCap
                /\ cmCalls' = [cmCalls EXCEPT ![page] = @ + 1]
                /\ IF ans = "rate"
                   THEN /\ cmCursor' = CursorOnError
                        /\ cmAttempt' = cmAttempt + 1
                        /\ UNCHANGED <<cmPc, cmRet, cmMembers>>
                   ELSE IF ans = "err"
                   THEN /\ cmCursor' = CursorOnError
                        /\ cmPc' = "done" /\ cmRet' = fail
                        /\ UNCHANGED <<cmAttempt, cmMembers>>
                   ELSE /\ cmMembers' = cmMembers \o cmPages[page]
                        /\ cmCursor' = CursorAfter(cmPages, page)
                        /\ UNCHANGED cmRet
                        /\ IF cmCursor' = 0
                           THEN cmPc' = "users" /\ UNCHANGED cmAttempt
                           ELSE cmAttempt' = 0 /\ UNCHANGED cmPc

\* a task of the connection calls ChannelMembers
ChannelMembers ==
    /\ cmPc = "idle" /\ fbPc = "idle"
    /\ \E pages \in MemberPagings : MembersBegin(pages)
    /\ UNCHANGED <<otherVars, cacheVars, fbVars>>

\* the call in progress issues its next GetUsersInConversation
MembersStep ==
    /\ \E ans \in UpstreamAnswers : MembersIterate(ans)
    /\ UNCHANGED <<otherVars, cacheVars, fbVars>>

\* ctx.Users.FetchByIDs(ctx.SlackClient, false, members...)
MembersFetchUsers ==
    /\ cmPc = "users" /\ fbPc = "idle"
    /\ FetchBegin("users", FALSE, cmMembers)
    /\ cmPc' = "fetching"
    /\ UNCHANGED <<cmPages, cmCursor, cmAttempt, cmCalls, cmMembers, cmRet, otherVars>>

\* Users.FetchByIDs issues its next GetUsersInfo
MembersFetchStep ==
    /\ cmPc = "fetching"
    /\ \E ans \in UpstreamAnswers : FetchIterate(ans)
    /\ UNCHANGED <<otherVars, cmVars>>

\* the last statements of ChannelMembers
MembersReturn ==
    /\ cmPc = "fetching" /\ fbPc = "done"
    /\ cmRet' = IF fbRet.err THEN [vals |-> <<>>, err |-> TRUE] ELSE fbRet
    /\ cmPc' = "done"
    /\ fbPc' = "idle"
    /\ UNCHANGED <<fbKind, fbIDs, fbSkip, fbToRetrieve, fbAlready, fbFetched, fbI,
                   fbAttempt, fbCalls, fbRet, cmPages, cmCursor, cmAttempt, cmCalls,
                   cmMembers, cacheVars, otherVars>>

\* the caller takes the result
MembersTaken ==
    /\ cmPc = "done"
    /\ cmPc' = "idle"
    /\ UNCHANGED <<cmPages, cmCursor, cmAttempt, cmCalls, cmMembers, cmRet, fbVars,
                   cacheVars, otherVars>>

NextMembers ==
    \/ ChannelMembers
    \/ MembersStep
    \/ MembersFetchUsers
    \/ MembersFetchStep
    \/ MembersReturn
    \/ MembersTaken

SpecMembers == InitLoggedIn /\ [][NextMembers]_vars

\* C10: ChannelMembers issues at most MaxSlackAPIAttempts
\* GetUsersInConversation calls for any one page.
C10_AtMostThreeCallsPerPage ==
    \A p \in DOMAIN cmCalls : cmCalls[p] <= MaxSlackAPIAttempts

\* C10, the part the code keeps: three rate-limit answers in a row end the call
\* with an error and no member list
C10_Witness ==
    /\ cmPc = "done" /\ cmRet.err /\ cmRet.vals = <<>>
    /\ cmAttempt = MaxSlackAPIAttempts

(***************************************************************************)
(* Pagination properties.                                                  *)
(***************************************************************************)
\* the pages concatenated in cursor order
RECURSIVE Flatten(_)
Flatten(pages) == IF pages = <<>> THEN <<>> ELSE Head(pages) \o Flatten(Tail(pages))

\* C11: the member-id list ChannelMembers collects is the concatenation of the
\* conversation's pages, each page once and in cursor order, also when page
\* requests were rate-limited and retried.
C11_MembersArePagesInOrder ==
    cmPc \in {"users", "fetching"} => cmMembers = Flatten(cmPages)

\* C11, without rate limits: two pages were collected, each once and in order
C11_Witness ==
    /\ cmPc = "users" /\ Len(cmPages) = 2
    /\ cmCalls = <<1, 1>>
    /\ cmMembers = Flatten(cmPages)

\* C12: when a page request of Channels.Fetch is rate-limited, Fetch requests
\* that page again, so that when Fetch returns the cache holds the channels of
\* every page up to the empty cursor.  Stated for the Fetch of a single login
\* whose requests met no other error.
C12_FetchHoldsEveryPage ==
    (Len(logins) = 1 /\ logins[1].step \in {"ok", "members"} /\ ~logins[1].fetchErr)
        => Channels.map = FetchedMap(Len(SlackPages))

\* C12, without rate limit: the cache holds the channels of both pages
C12_Witness ==
    /\ Len(logins) = 1 /\ logins[1].step = "ok"
    /\ ~logins[1].fetchErr /\ ~logins[1].fetchRate
    /\ Channels.map = FetchedMap(Len(SlackPages)) /\ Len(SlackPages) = 2

(***************************************************************************)
(* Cache properties.                                                       *)
(***************************************************************************)
\* no two entries of the map m hold the same Slack id
UniqueIds(m) == \A e1, e2 \in m : e1.val.ID = e2.val.ID => e1 = e2

\* C13: in every reachable state of the Channels cache and of the Users cache,
\* no two entries have the same Slack id; a FetchByIDs for a cached id replaces
\* the entry instead of adding a second one.
C13_OneEntryPerId == UniqueIds(Channels.map) /\ UniqueIds(Users.map)

\* C13, the Users cache: a FetchByIDs that skipped the cache for a cached user
\* returned and the cache still holds one entry for that user
C13_Witness ==
    /\ fbKind = "users" /\ fbPc = "done" /\ fbSkip /\ ~fbRet.err
    /\ fbIDs = <<UserU1.ID>>
    /\ Cardinality({e \in Users.map : e.val.ID = UserU1.ID}) = 1

\* C14: for every channel C held in the Channels cache, inserted by Fetch or by
\* FetchByIDs, public, private or multi-party, ByName(C.IRCName()) returns C.
C14_ByNameOfIRCName ==
    \A e \in Channels.map : ChannelsByName(Channels, IRCName(e.val)) = {e.val}

\* C14, the channels inserted by Fetch: the public and the private channel are
\* found by their IRC names
C14_Witness ==
    /\ ChannelsByName(Channels, <<"#", "g">>) = {ChanC1}
    /\ ChannelsByName(Channels, <<"@", "r">>) = {ChanC2}
    /\ IRCName(ChanC1) = <<"#", "g">> /\ IRCName(ChanC2) = <<"@", "r">>
    /\ fbKind = "channels" /\ fbPc = "done"

(***************************************************************************)
(* The Users cache under upstream changes: users are renamed upstream, the *)
(* event handler receives team_join and user_change events, and callers    *)
(* fetch users by id or all at once.                                       *)
(***************************************************************************)
coreVars == <<netVars, readerVars, connOpen, ctxVars, taskVars, crashed, out, hist,
              logins, batchVars>>

\* the names users take upstream; no two users hold the same name at one time
UserNames == {UserU1.Name, UserU2.Name, <<"e", "v", "e">>}

\* Users.ByID: the records a scan of the map can return (empty: nil)
UsersByID(u, id) == {e.val : e \in {x \in u.map : x.val.ID = id}}

\* Users.ByName: the records a scan of the map can return (empty: nil)
UsersByName(u, name) == {e.val : e \in {x \in u.map : x.val.Name = name}}

\* Users.IDsToNames
RECURSIVE IDsToNames(_, _)
IDsToNames(u, userIDs) ==
    IF userIDs = <<>> THEN <<>>
    ELSE (IF \E e \in u.map : e.key = Head(userIDs)
          THEN <<MapGet(u.map, Head(userIDs), <<>>).Name>> ELSE <<>>)
         \o IDsToNames(u, Tail(userIDs))

\* the event being handled, as the event handler keeps it
Event(type, id) == [type |-> type, id |-> id]

\* a user changes their name upstream
UserRenamed ==
    /\ fbPc = "idle" /\ cmPc = "idle"
    /\ \E u \in upUsers, n \in UserNames :
          /\ \A v \in upUsers : v.Name # n
          /\ upUsers' = (upUsers \ {u}) \cup {[u EXCEPT !.Name = n]}
    /\ UNCHANGED <<coreVars, cacheVars, algoVars, evLog, fnVars, idxVars>>

\* eventHandler, case *slack.TeamJoinEvent
EvTeamJoin ==
    /\ fbPc = "idle" /\ cmPc = "idle"
    /\ \E u \in upUsers :
          /\ FetchBegin("users", FALSE, <<u.ID>>)
          /\ evLog' = <<Event("team_join", u.ID)>>
    /\ UNCHANGED <<coreVars, cmVars, upUsers, fnVars, idxVars>>

\* eventHandler, case *slack.UserChangeEvent
EvUserChange ==
    /\ fbPc = "idle" /\ cmPc = "idle"
    /\ \E u \in upUsers :
          /\ FetchBegin("users", FALSE, <<u.ID>>)
          /\ evLog' = <<Event("user_change", u.ID)>>
    /\ UNCHANGED <<coreVars, cmVars, upUsers, fnVars, idxVars>>

\* the lists of users a paginated listing can have returned when it stopped
UserListings ==
    {s \in UNION {[1..n -> upUsers] : n \in 0..Cardinality(upUsers)} :
        \A i, j \in 1..Len(s) : s[i] = s[j] => i = j}

\* Users.Fetch: the map is replaced by the users of the pages retrieved
UsersFetch ==
    /\ fbPc = "idle" /\ cmPc = "idle"
    /\ \E got \in UserListings :
          /\ Users' = [Users EXCEPT !.map = {[key |-> got[i].ID, val |-> got[i]] :
                                                 i \in 1..Len(got)}]
          /\ fbRet' = [vals |-> got, err |-> FALSE]
    /\ fbKind' = "fetch" /\ fbPc' = "done"
    /\ UNCHANGED <<fbIDs, fbSkip, fbToRetrieve, fbAlready, fbFetched, fbI, fbAttempt,
                   fbCalls, Channels, cmVars, coreVars, extVars>>

\* the caller, or the event handler, takes the result
UsersReturn ==
    /\ fbPc = "done" /\ cmPc = "idle"
    /\ fbPc' = "idle"
    /\ evLog' = <<>>
    /\ UNCHANGED <<fbKind, fbIDs, fbSkip, fbToRetrieve, fbAlready, fbFetched, fbI,
                   fbAttempt, fbCalls, fbRet, cmVars, cacheVars, coreVars, upUsers,
                   fnVars, idxVars>>

NextUsers ==
    \/ UserRenamed
    \/ EvTeamJoin
    \/ EvUserChange
    \/ UsersFetch
    \/ UsersFetchByIDs
    \/ FetchStep
    \/ UsersReturn

SpecUsers == InitLoggedIn /\ [][NextUsers]_vars

\* the handler of a team_join or user_change event returned from its fetch
\* without an upstream failure
EventHandled ==
    /\ evLog # <<>> /\ evLog[1].type \in {"team_join", "user_change"}
    /\ fbPc = "done" /\ fbKind = "users" /\ ~fbRet.err

\* C17: after the event handler has processed a team_join or user_change
\* event for user U, the Users cache entry of U equals the record the upstream
\* returns for U at that moment, also when U was cached before the event.
C17_EventRefreshesUser ==
    EventHandled =>
        \A u \in upUsers : u.ID = evLog[1].id => UsersByID(Users, u.ID) = {u}

\* C17, a user that was not cached: the event for U2 was handled and the cache
\* holds the upstream record of U2
C17_Witness ==
    /\ EventHandled /\ evLog[1].id = UserU2.ID /\ fbCalls = 1
    /\ \E u \in upUsers : u.ID = UserU2.ID /\ UsersByID(Users, u.ID) = {u}

\* C15: after a fetch that returned user U (Users.Fetch, or a successful
\* Users.FetchByIDs for the id of U), ByID(U.id) and ByName(U.name) return a
\* record with the id and name of U, and IDsToNames of U's id gives U's name.
C15_LookupsAfterFetch ==
    (fbPc = "done" /\ fbKind \in {"users", "fetch"} /\ ~fbRet.err) =>
        \A i \in 1..Len(fbRet.vals) :
            LET U == fbRet.vals[i]
            IN  /\ UsersByID(Users, U.ID) = {U}
                /\ UsersByName(Users, U.Name) = {U}
                /\ IDsToNames(Users, <<U.ID>>) = <<U.Name>>

\* C15, the usual case: a FetchByIDs past the cache returned U2 and the three
\* lookups find it
C15_Witness ==
    /\ fbPc = "done" /\ fbKind = "users" /\ ~fbRet.err /\ fbSkip
    /\ Len(fbRet.vals) = 1 /\ fbRet.vals[1].ID = UserU2.ID
    /\ UsersByID(Users, UserU2.ID) = {fbRet.vals[1]}
    /\ UsersByName(Users, fbRet.vals[1].Name) = {fbRet.vals[1]}
    /\ IDsToNames(Users, <<UserU2.ID>>) = <<fbRet.vals[1].Name>>

(***************************************************************************)
(* printMessage, as the event handler runs it for one MessageEvent: the    *)
(* whole call is one action, the upstream's answers to the calls it makes  *)
(* are its inputs.  The conversations of the messages are channels and a   *)
(* multi-party IM.                                                         *)
(***************************************************************************)
MaxBurstEvents == 2

BotIDs == {<<>>, <<"B", "1">>}
ClientMsgIDs == {<<>>, <<"m">>}
ThreadTimestamps == {<<>>, <<"1">>}

\* the fields of slack.Msg that printMessage and resolveChannelName read
Msgs ==
    [User : {SelfUser.ID, UserU1.ID}, Channel : {ChanC1.ID, ChanG3.ID},
     ThreadTimestamp : ThreadTimestamps, BotID : BotIDs, ClientMsgID : ClientMsgIDs]

\* the upstream's answers during one printMessage: to GetConversationInfo, to
\* GetConversationReplies and to the calls of ChannelMembers
ResolveAnswers == [fetchOk : BOOLEAN, openerOk : BOOLEAN, membersOk : BOOLEAN]

ChannelPrefixThread == <<"+">>

\* formatThreadChannelName
formatThreadChannelName(threadTimestamp, channel) ==
    ChannelPrefixThread \o channel.Name \o <<"-">> \o threadTimestamp

\* IrcSendChanInfoAfterJoinCustom: RPL_NAMREPLY only with members
IrcSendChanInfoAfterJoinCustom(by, chanName, members, open) ==
    <<W(by, "JOIN", chanName, open), W(by, "332", chanName, open)>>
    \o (IF members # {} THEN <<W(by, "353", chanName, open)>> ELSE <<>>)
    \o <<W(by, "366", chanName, open)>>

\* resolveChannelName for a conversation id with prefix C or G: the name, the
\* writes and the caches it leaves
resolveChannelName(chans, users, open, msgChannel, threadTimestamp, o) ==
    LET by == "resolve"
        cached == ChannelsByID(chans, msgChannel)
        known == {c \in SlackConversations : c.ID = msgChannel}
        failed == [name |-> <<>>, writes |-> <<W(by, "400", <<>>, open)>>,
                   chans |-> chans, users |-> users]
    IN  IF cached = {} /\ (~o.fetchOk \/ known = {}) THEN failed
        ELSE
        LET channel == IF cached # {} THEN CHOOSE c \in cached : TRUE
                       ELSE CHOOSE c \in known : TRUE
            chans1 == IF cached # {} THEN chans
                      ELSE [chans EXCEPT !.map = MapPut(@, channel.ID, channel)]
        IN  IF threadTimestamp # <<>>
            THEN LET channame == formatThreadChannelName(threadTimestamp, channel)
                 IN  IF ~o.openerOk THEN [failed EXCEPT !.chans = chans1]
                     ELSE [name |-> channame,
                           writes |-> IrcSendChanInfoAfterJoinCustom(by, channame, {}, open)
                                      \o <<W(by, "PRIVMSG", channame, open)>>,
                           chans |-> chans1, users |-> users]
            ELSE IF channel.IsMpIM /\ ChannelsByName(chans1, IRCName(channel)) = {}
                    /\ o.membersOk
            THEN LET members == ChanMembers(channel.ID)
                     missing == {m \in members : \A e \in users.map : e.key # m.ID}
                 IN  [name |-> IRCName(channel),
                      writes |-> IrcSendChanInfoAfterJoinCustom(by, IRCName(channel),
                                                                members, open),
                      chans |-> chans1,
                      users |-> [users EXCEPT !.map = @ \cup
                                    {[key |-> m.ID, val |-> m] : m \in missing}]]
            ELSE [name |-> IRCName(channel), writes |-> <<>>,
                  chans |-> chans1, users |-> users]

\* "Don't print my own messages": the test of printMessage on a message whose
\* sender has the name `name`; user is the set holding the cached sender
SkipOwn(legacy, nick, name, user, m) ==
    /\ name = nick
    /\ \/ legacy /\ user # {} /\ \E u \in user : m.BotID # u.BotID
       \/ ~legacy /\ m.ClientMsgID = <<>>

\* eventHandler, case *slack.MessageEvent, default subtype: printMessage(m)
EvPrintMessage ==
    /\ ~crashed /\ evPc = "run" /\ Len(evLog) < MaxBurstEvents
    /\ fbPc = "idle" /\ cmPc = "idle"
    /\ \E m \in Msgs, o \in ResolveAnswers :
          LET user == UsersByID(Users, m.User)
              name == IF user = {} THEN m.User ELSE (CHOOSE u \in user : TRUE).Name
              r == resolveChannelName(Channels, Users, connOpen, m.Channel,
                                      m.ThreadTimestamp, o)
              privmsg == IF SkipOwn(usingLegacyToken, Nick(userSet), name, user, m)
                         THEN <<>>
                         ELSE <<W("event", "PRIVMSG", r.name, connOpen)>>
          IN  /\ out' = out \o r.writes \o privmsg
              /\ Channels' = r.chans
              /\ Users' = r.users
              /\ evLog' = Append(evLog, [type |-> "message", msg |-> m, sender |-> name,
                                         name |-> r.name,
                                         from |-> Len(out) + 1,
                                         to |-> Len(out) + Len(r.writes) + Len(privmsg)])
    /\ UNCHANGED <<netVars, readerVars, connOpen, ctxVars, taskVars, crashed, hist,
                   logins, batchVars, algoVars, upUsers, fnVars, idxVars>>

NextEvents == EvPrintMessage

\* a login with a legacy token or with a token and a cookie, the own user cached
InitEvents ==
    \E pw \in {PwLegacy, PwCookie} :
        LoggedInAs(pw, {SelfUser}) /\ AlgoIdle /\ ExtIdle

SpecEvents == InitEvents /\ [][NextEvents]_vars

\* the writes of the i-th printMessage made by the writer `by`
WritesOf(i, by) == {k \in evLog[i].from .. evLog[i].to : out[k].by = by}

\* the i-th message came from another client of the own user
FromOtherClient(i) ==
    IF usingLegacyToken THEN evLog[i].msg.BotID # SelfUser.BotID
    ELSE evLog[i].msg.ClientMsgID # <<>>

\* C16: a message whose sender is the own nick is written to the IRC client
\* when it comes from another client of the same user (legacy token: its bot_id
\* differs from that of the own profile; otherwise: its client_msg_id is not
\* empty) and is suppressed otherwise.
C16_OwnMessageWrittenIffOtherClient ==
    \A i \in DOMAIN evLog :
        evLog[i].sender = Nick(userSet) =>
            (WritesOf(i, "event") # {} <=> FromOtherClient(i))

\* C16, with a token and a cookie: an own message with a client_msg_id was
\* written and one without was suppressed
C16_Witness ==
    /\ ~usingLegacyToken /\ Len(evLog) = 2
    /\ evLog[1].sender = Nick(userSet) /\ evLog[2].sender = Nick(userSet)
    /\ evLog[1].msg.ClientMsgID # <<>> /\ WritesOf(1, "event") # {}
    /\ evLog[2].msg.ClientMsgID = <<>> /\ WritesOf(2, "event") = {}

\* the i-th and the j-th message are of the same thread
SameThread(i, j) ==
    /\ evLog[i].msg.Channel = evLog[j].msg.Channel
    /\ evLog[i].msg.ThreadTimestamp = evLog[j].msg.ThreadTimestamp
    /\ evLog[i].msg.ThreadTimestamp # <<>>

\* C18: for a pair (channel id, thread timestamp) the JOIN/TOPIC/NAMES burst of
\* the thread pseudo-channel and the PRIVMSG with the thread-opening message
\* are written on the first resolveChannelName call only; every later call for
\* the pair returns the same name and writes nothing.
C18_ThreadBurstOnce ==
    \A i, j \in DOMAIN evLog :
        (i < j /\ SameThread(i, j) /\ WritesOf(i, "resolve") # {}
               /\ evLog[i].name # <<>>) =>
            (evLog[j].name = evLog[i].name /\ WritesOf(j, "resolve") = {})

\* C18, the first call: the burst and the opening message were written for
\* the thread 1 of channel g
C18_Witness ==
    /\ Len(evLog) >= 1
    /\ evLog[1].msg.Channel = ChanC1.ID /\ evLog[1].msg.ThreadTimestamp = <<"1">>
    /\ evLog[1].name = <<"+", "g", "-", "1">>
    /\ {out[k].kind : k \in WritesOf(1, "resolve")} = {"JOIN", "332", "366", "PRIVMSG"}

\* the i-th message is of a multi-party IM, outside a thread
OfMpIM(i) ==
    /\ evLog[i].msg.ThreadTimestamp = <<>>
    /\ \E c \in SlackConversations : c.ID = evLog[i].msg.Channel /\ c.IsMpIM

\* the i-th printMessage wrote a JOIN
WroteJoin(i) == \E k \in WritesOf(i, "resolve") : out[k].kind = "JOIN"

\* C19: for a multi-party IM, resolveChannelName writes the JOIN burst with
\* the members on the first message observed for the conversation and writes
\* no JOIN burst for any later message of the same conversation.
C19_MpIMBurstOnce ==
    \A i, j \in DOMAIN evLog :
        (i < j /\ OfMpIM(i) /\ OfMpIM(j) /\ evLog[i].msg.Channel = evLog[j].msg.Channel
               /\ WroteJoin(i)) => ~WroteJoin(j)

\* C19, the first message: the JOIN burst with the members was written
C19_Witness ==
    /\ Len(evLog) >= 1 /\ OfMpIM(1)
    /\ {out[k].kind : k \in WritesOf(1, "resolve")} = {"JOIN", "332", "353", "366"}
    /\ evLog[1].name = <<"&", "G", "3", "|", "a", "-", "b", "-", "1">>

(***************************************************************************)
(* passwordToTokenAndCookie applied to the passwords a client can send,    *)
(* followed by the statement of connectToSlack that sets the legacy flag.  *)
(***************************************************************************)
MaxParts == 3

\* the pieces a password is made of: tokens and cookies, well-formed or not
PwPieces ==
    {<<>>, XoxcPrefix, XoxcPrefix \o <<"T">>, <<"x", "o", "x", "p", "-", "T">>,
     <<"T">> \o XoxcPrefix,
     <<"d", "=", ";">>, <<"d", "=", "C", ";">>, <<"d", "=", "C">>, <<"C", ";">>,
     <<"d", "=">>, <<";">>, <<"d", ";">>, <<" ", "d", "=", "C", ";">>}

\* the pieces joined by '|'
RECURSIVE JoinBar(_)
JoinBar(ps) ==
    IF Len(ps) = 1 THEN ps[1] ELSE ps[1] \o <<"|">> \o JoinBar(Tail(ps))

Passwords == {JoinBar(ps) : ps \in UNION {[1..n -> PwPieces] : n \in 1..MaxParts}}

\* before the handshake, a password chosen
InitPass ==
    /\ ConnInit /\ BatchInit /\ AlgoIdle
    /\ upUsers = SlackUsers /\ evLog = <<>> /\ IdxIdle
    /\ fnArg \in Passwords /\ fnRes = NoArg

\* connectToSlack up to `ctx.usingLegacyToken = true`
ParsePassword ==
    /\ Len(fnRes) = 1
    /\ LET p == passwordToTokenAndCookie(fnArg)
       IN  /\ fnRes' = <<"done", p>>
           /\ slackClient' = (slackClient \/ ~p.err)
           /\ usingLegacyToken' = (usingLegacyToken \/ (~p.err /\ p.cookie = <<>>))
    /\ UNCHANGED <<netVars, readerVars, connOpen, OrigName, RealName, SlackAPIKey,
                   userSet, cacheVars, taskVars, crashed, out, hist, logins, batchVars,
                   algoVars, evVars, fnArg, idxVars>>

NextPass == ParsePassword

SpecPass == InitPass /\ [][NextPass]_vars

\* the positions of '|' in s
Bars(s) == {i \in 1..Len(s) : s[i] = "|"}

\* s before and after its only '|'
BeforeBar(s) == SubSeq(s, 1, (CHOOSE i \in Bars(s) : TRUE) - 1)
AfterBar(s) == SubSeq(s, (CHOOSE i \in Bars(s) : TRUE) + 1, Len(s))

\* one '|', the first part starts with xoxc-, the second is not empty, starts
\* with d= and ends with ';'
TokenAndCookie(s) ==
    /\ Cardinality(Bars(s)) = 1
    /\ HasPrefix(BeforeBar(s), XoxcPrefix)
    /\ AfterBar(s) # <<>>
    /\ HasPrefix(AfterBar(s), CookiePrefix) /\ HasSuffix(AfterBar(s), CookieSuffix)

\* C20: passwordToTokenAndCookie accepts exactly the passwords without '|'
\* (token = the password, cookie empty, legacy-token flag set) and those with
\* one '|' whose first part starts with xoxc- and whose second part is not
\* empty, starts with d= and ends with ';' (token = first part, cookie = second
\* part); every other password is rejected with an error.
C20_PasswordsAccepted ==
    Len(fnRes) = 2 =>
        LET r == fnRes[2]
        IN  /\ ~r.err <=> (Bars(fnArg) = {} \/ TokenAndCookie(fnArg))
            /\ Bars(fnArg) = {} =>
                   r.token = fnArg /\ r.cookie = <<>> /\ usingLegacyToken
            /\ TokenAndCookie(fnArg) =>
                   r.token = BeforeBar(fnArg) /\ r.cookie = AfterBar(fnArg)

\* C20: a token with a cookie was accepted and split at the '|'
C20_Witness ==
    /\ Len(fnRes) = 2 /\ fnArg = PwCookie
    /\ ~fnRes[2].err
    /\ fnRes[2].token = <<"x", "o", "x", "c", "-", "T">>
    /\ fnRes[2].cookie = <<"d", "=", "C", ";">>

(***************************************************************************)
(* Handler replies.                                                        *)
(***************************************************************************)
\* the PASS lines handled so far whose value is not a well-formed credential
BadPassLines ==
    {i \in DOMAIN hist : /\ hist[i].line.cmd = "PASS"
                         /\ Len(hist[i].line.args) = 1
                         /\ passwordToTokenAndCookie(hist[i].line.args[1]).err}

\* C21: when the value given with PASS is not a well-formed credential (for
\* example a|b|c), the client receives numeric 464: at the latest when
\* connectToSlack has validated the value.
C21_BadPasswordGets464 ==
    (BadPassLines # {} /\ Len(logins) >= 1) => \E k \in DOMAIN out : out[k].kind = "464"

\* C21: the malformed value a|b|c was handled, connectToSlack refused it and
\* the socket was closed
C21_Witness ==
    /\ BadPassLines # {}
    /\ Len(logins) = 1 /\ logins[1].step = "parse"
    /\ ~connOpen


(***************************************************************************)
(* Commands of a logged-in client: the read loop takes a line and runs its *)
(* handler to the end; the upstream's answers to the calls of the handler  *)
(* are inputs of the action.                                               *)
(***************************************************************************)
MaxCmds == 2

\* StripChannelPrefix
StripChannelPrefix(name) == IF HasChannelPrefix(name) THEN Tail(name) ELSE name

PartLines ==
    {Line("PART", <<<<"#", "g">>>>, <<>>), Line("PART", <<<<"#", "z">>>>, <<>>),
     Line("PART", <<<<"@", "r">>>>, <<>>), Line("PART", <<>>, <<>>)}

\* the answers of LeaveConversation: left, not in the channel, error
LeaveAnswers == {"ok", "notin", "err"}

\* IrcPartHandler: its writes, the cache it leaves and the ids it called
\* LeaveConversation with; a holds the answers to Channels.Fetch
IrcPartHandler(l, a, leave, open) ==
    LET by == "reader"
        channame == StripChannelPrefix(l.args[1])
        fetched == [nil |-> FALSE, map |-> FetchedMap(ChannelsFetchLoop(0, a, 0).pages)]
        found == {e.val.ID : e \in {x \in fetched.map : x.val.Name = channame}}
        e441 == W(by, "441", channame, open)
    IN  IF Len(l.args) # 1
        THEN [writes |-> <<W(by, "400", <<>>, open)>>, chans |-> Channels,
              leaves |-> <<>>]
        ELSE IF found # {}
        THEN [writes |-> <<>>, chans |-> fetched, leaves |-> <<>>]
        ELSE IF ~open
        THEN [writes |-> <<e441>>, chans |-> fetched, leaves |-> <<>>]
        ELSE [writes |-> CASE leave = "err" -> <<e441>>
                           [] leave = "notin" -> <<e441, e441>>
                           [] OTHER -> <<e441, W(by, "PART", <<"#">> \o channame, open)>>,
              chans |-> fetched, leaves |-> << <<>> >>]

\* the guard of the read loop for one more command of the logged-in client
CmdTake ==
    /\ ~crashed /\ readerPc = "run" /\ connOpen /\ ~Channels.nil
    /\ Len(evLog) < MaxCmds
    /\ fbPc = "idle" /\ cmPc = "idle"

\* the read loop takes the PART line l
HandlePart(l) ==
    /\ CmdTake
    /\ \E a \in FetchAnswers, leave \in LeaveAnswers :
          LET r == IrcPartHandler(l, a, leave, connOpen)
          IN  /\ out' = out \o r.writes
              /\ Channels' = r.chans
              /\ evLog' = Append(evLog, [type |-> "PART", line |-> l,
                                         fetch |-> a, before |-> Channels.map,
                                         list |-> r.chans.map, answer |-> leave,
                                         calls |-> r.leaves,
                                         from |-> Len(out) + 1,
                                         to |-> Len(out) + Len(r.writes)])
    /\ hist' = Append(hist, [line |-> l, connect |-> FALSE])
    /\ sent' = sent + 1
    /\ UNCHANGED <<wire, peerClosed, readerVars, connOpen, ctxVars, Users, taskVars,
                   crashed, logins, batchVars, algoVars, upUsers, fnVars, idxVars>>

\* the kinds of the writes of the i-th command, in order
KindsOf(i) == [k \in 1..(evLog[i].to - evLog[i].from + 1) |->
                  out[evLog[i].from + k - 1].kind]

\* the ids the channel list of the i-th command gives for its argument
ResolvedIds(i) ==
    {e.val.ID : e \in {x \in evLog[i].list :
                          x.val.Name = StripChannelPrefix(evLog[i].line.args[1])}}

\* the PART commands handled, with one argument
PartsHandled ==
    {i \in DOMAIN evLog : evLog[i].type = "PART" /\ Len(evLog[i].line.args) = 1}

\* C22: PART for a channel that the channel list resolves to an id calls the
\* Slack leave operation with that id and, when the leave succeeds, writes a
\* PART line; PART for a channel that cannot be resolved writes numeric 441 and
\* calls no Slack leave operation.
C22_PartLeavesResolvedChannel ==
    \A i \in PartsHandled :
        IF ResolvedIds(i) # {}
        THEN /\ Len(evLog[i].calls) = 1 /\ evLog[i].calls[1] \in ResolvedIds(i)
             /\ evLog[i].answer = "ok" => \E k \in DOMAIN KindsOf(i) : KindsOf(i)[k] = "PART"
        ELSE /\ evLog[i].calls = <<>>
             /\ \E k \in DOMAIN KindsOf(i) : KindsOf(i)[k] = "441"

\* C22: a PART for #g was handled, the channel list resolving g to C1
C22_Witness ==
    /\ 1 \in PartsHandled
    /\ evLog[1].line.args[1] = <<"#", "g">>
    /\ ResolvedIds(1) = {ChanC1.ID}
    /\ evLog[1].answer = "ok"

WhoLines ==
    {Line("WHO", <<<<"#", "g">>>>, <<>>), Line("WHO", <<<<"#", "z">>>>, <<>>),
     Line("WHO", <<<<"a", "n", "n">>>>, <<>>), Line("WHO", <<<<"z", "e", "d">>>>, <<>>),
     Line("WHO", <<>>, <<>>)}

\* the 352 replies of a WHO on a channel: one per member that is in the Users
\* cache
RECURSIVE WhoReplies(_, _, _)
WhoReplies(members, target, open) ==
    IF members = <<>> THEN <<>>
    ELSE (IF UsersByID(Users, Head(members)) = {} THEN <<>>
          ELSE <<W("reader", "352", target, open)>>)
         \o WhoReplies(Tail(members), target, open)

\* IrcWhoHandler: its writes
IrcWhoHandler(l, open) ==
    LET by == "reader"
        target == l.args[1]
        ch == ChannelsByName(Channels, target)
        user == UsersByName(Users, target)
    IN  IF Len(l.args) # 1 /\ Len(l.args) # 2
        THEN <<W(by, "400", <<>>, open)>>
        ELSE IF HasChannelPrefix(target)
        THEN IF ch = {} THEN <<W(by, "403", target, open)>>
             ELSE WhoReplies((CHOOSE c \in ch : TRUE).Members, target, open)
                  \o <<W(by, "315", target, open)>>
        ELSE IF user = {} THEN <<W(by, "401", target, open)>>
        ELSE <<W(by, "352", target, open)>>

\* the read loop takes the WHO line l
HandleWho(l) ==
    /\ CmdTake
    /\ LET ws == IrcWhoHandler(l, connOpen)
       IN  /\ out' = out \o ws
           /\ evLog' = Append(evLog, [type |-> "WHO", line |-> l,
                                      list |-> Channels.map, answer |-> "none",
                                      calls |-> <<>>,
                                      from |-> Len(out) + 1,
                                      to |-> Len(out) + Len(ws)])
    /\ hist' = Append(hist, [line |-> l, connect |-> FALSE])
    /\ sent' = sent + 1
    /\ UNCHANGED <<wire, peerClosed, readerVars, connOpen, ctxVars, cacheVars, taskVars,
                   crashed, logins, batchVars, algoVars, upUsers, fnVars, idxVars>>

NextCommands ==
    \/ \E l \in PartLines : HandlePart(l)
    \/ \E l \in WhoLines : HandleWho(l)

SpecCommands == InitLoggedIn /\ [][NextCommands]_vars

\* the number of 352 replies a WHO with a known target is to be answered with
RECURSIVE CachedCount(_)
CachedCount(members) ==
    IF members = <<>> THEN 0
    ELSE (IF \E e \in Users.map : e.val.ID = Head(members) THEN 1 ELSE 0)
         + CachedCount(Tail(members))

\* the channel of the list of the i-th command that its argument names
TargetChannel(i) ==
    {e.val : e \in {x \in evLog[i].list :
                       x.key = StripChannelPrefix(evLog[i].line.args[1])}}

\* the WHO commands handled whose target is a known channel or a known nick
WhoKnown ==
    {i \in DOMAIN evLog :
        /\ evLog[i].type = "WHO" /\ Len(evLog[i].line.args) \in {1, 2}
        /\ IF HasChannelPrefix(evLog[i].line.args[1])
           THEN TargetChannel(i) # {}
           ELSE \E e \in Users.map : e.val.Name = evLog[i].line.args[1]}

\* C23: every WHO request with a known target is answered by its 352 replies
\* followed by one 315: one 352 per cached member then 315 for a channel
\* target, and one 352 then 315 for a nick target.
C23_WhoEndsWith315 ==
    \A i \in WhoKnown :
        LET n == IF HasChannelPrefix(evLog[i].line.args[1])
                 THEN CachedCount((CHOOSE c \in TargetChannel(i) : TRUE).Members)
                 ELSE 1
        IN  KindsOf(i) = [k \in 1..(n + 1) |-> IF k <= n THEN "352" ELSE "315"]

\* C23, a channel target: WHO #g was answered by one 352, for the one member
\* of g that is cached, and 315
C23_Witness ==
    /\ 1 \in WhoKnown /\ evLog[1].line.args[1] = <<"#", "g">>
    /\ KindsOf(1) = <<"352", "315">>


(***************************************************************************)
(* Server.HandleMsg: how a raw line is split into prefix, command,         *)
(* arguments and trailing text, and whether it is dispatched.              *)
(***************************************************************************)
CRLF == <<"\r", "\n">>

\* strings.SplitN(s, sep, n) for a one-character separator and n >= 0
RECURSIVE SplitN(_, _, _)
SplitN(s, sep, n) ==
    IF n = 0 THEN <<>>
    ELSE IF n = 1 \/ \A i \in 1..Len(s) : s[i] # sep THEN <<s>>
    ELSE LET k == CHOOSE i \in 1..Len(s) : s[i] = sep /\ \A j \in 1..(i - 1) : s[j] # sep
         IN  <<SubSeq(s, 1, k - 1)>> \o SplitN(SubSeq(s, k + 1, Len(s)), sep, n - 1)

\* strings.Join(parts, sep)
RECURSIVE JoinWith(_, _)
JoinWith(parts, sep) ==
    IF parts = <<>> THEN <<>>
    ELSE IF Len(parts) = 1 THEN parts[1]
    ELSE parts[1] \o sep \o JoinWith(Tail(parts), sep)

\* the keys of IrcCommandHandlers
IrcCommands ==
    {<<"C", "A", "P">>, <<"N", "I", "C", "K">>, <<"U", "S", "E", "R">>,
     <<"P", "I", "N", "G">>, <<"P", "R", "I", "V", "M", "S", "G">>,
     <<"Q", "U", "I", "T">>, <<"M", "O", "D", "E">>, <<"P", "A", "S", "S">>,
     <<"W", "H", "O", "I", "S">>, <<"W", "H", "O">>, <<"J", "O", "I", "N">>,
     <<"P", "A", "R", "T">>, <<"T", "O", "P", "I", "C">>, <<"N", "A", "M", "E", "S">>}

\* a line HandleMsg returns on without calling a handler
Rejected == [ok |-> FALSE, prefix |-> <<>>, cmd |-> <<>>, args |-> <<>>, trailing |-> <<>>]

\* HandleMsg up to the call of the handler: what the handler is called with
HandleMsg(msg) ==
    IF Len(msg) < 1 THEN Rejected
    ELSE
    LET prefix == IF msg[1] = ":" THEN SplitN(Tail(msg), " ", 1)[1] ELSE <<>>
        data == IF msg[1] = ":" THEN SubSeq(msg, Len(prefix) + 2, Len(msg)) ELSE msg
    IN  IF ~HasSuffix(data, CRLF) THEN Rejected
        ELSE
        LET tokens == Split(SubSeq(data, 1, Len(data) - 2), " ")
            cmd == tokens[1]
            args == Tail(tokens)
            colon == {i \in 1..Len(args) : HasPrefix(args[i], <<":">>)}
            idx == IF colon = {} THEN Len(args) + 1
                   ELSE CHOOSE i \in colon : \A j \in colon : i <= j
            trailing == IF colon = {} THEN <<>>
                        ELSE Tail(JoinWith(SubSeq(args, idx, Len(args)), <<" ">>))
        IN  IF cmd \notin IrcCommands THEN Rejected
            ELSE [ok |-> TRUE, prefix |-> prefix, cmd |-> cmd,
                  args |-> SubSeq(args, 1, idx - 1), trailing |-> trailing]

\* the raw lines a client sends: with or without prefix, a known or unknown
\* command, arguments, trailing text, and the line terminators
LinePrefix == <<":", "p", " ">>

RawBodies ==
    {c \o a \o t :
        c \in {<<"P", "I", "N", "G">>, <<"N", "I", "C", "K">>, <<"F", "O", "O">>},
        a \in {<<>>, <<" ", "a">>, <<" ", "a", " ", "b">>},
        t \in {<<>>, <<" ", ":", "t">>, <<" ", ":", "t", " ", "u">>}}

RawLines ==
    {<<>>} \cup
    {p \o b \o e : p \in {<<>>, LinePrefix}, b \in RawBodies,
                   e \in {CRLF, <<"\n">>, <<>>}}

\* a connection without context yet, a raw line read
InitMsg ==
    /\ ConnInit /\ BatchInit /\ AlgoIdle
    /\ upUsers = SlackUsers /\ evLog = <<>> /\ IdxIdle
    /\ fnArg \in RawLines /\ fnRes = NoArg

\* HandleRequest hands the line to HandleMsg; a dispatched line gets its
\* context in the connection index and its batcher
DispatchLine ==
    /\ Len(fnRes) = 1
    /\ LET r == HandleMsg(fnArg)
       IN  /\ fnRes' = <<"done", r>>
           /\ inIndex' = (inIndex \/ r.ok)
           /\ batcherStarted' = (batcherStarted \/ r.ok)
    /\ UNCHANGED <<netVars, rbuf, readerPc, connOpen, ctxVars, cacheVars, taskVars,
                   crashed, out, hist, logins, textBuffer, message, timerArmed, timerLeft,
                   accepted, posts, algoVars, evVars, fnArg, idxVars>>

NextMsg == DispatchLine

SpecMsg == InitMsg /\ [][NextMsg]_vars

\* the line without its ':prefix '
Unprefixed(msg) == SubSeq(msg, Len(LinePrefix) + 1, Len(msg))

\* the command token of a line that has no prefix
CommandToken(msg) ==
    LET sp == {i \in 1..Len(msg) : msg[i] \in {" ", "\r", "\n"}}
    IN  IF sp = {} THEN msg
        ELSE SubSeq(msg, 1, (CHOOSE i \in sp : \A j \in sp : i <= j) - 1)

\* C24: a CRLF-terminated line that starts with ':prefix ' followed by a
\* recognised command is dispatched to that command's handler with the same
\* arguments and trailing text as the same line without the prefix; lines that
\* are empty or not CRLF-terminated are rejected and unknown commands are
\* ignored without any write to the client.
C24_PrefixedLineDispatched ==
    Len(fnRes) = 2 =>
        LET r == fnRes[2]
            plain == HandleMsg(Unprefixed(fnArg))
        IN  /\ (HasPrefix(fnArg, LinePrefix) /\ HasSuffix(fnArg, CRLF)
                   /\ CommandToken(Unprefixed(fnArg)) \in IrcCommands) =>
                   /\ r.ok /\ r.cmd = plain.cmd
                   /\ r.args = plain.args /\ r.trailing = plain.trailing
            /\ (fnArg = <<>> \/ ~HasSuffix(fnArg, CRLF)) => ~r.ok
            /\ (~HasPrefix(fnArg, LinePrefix) /\ CommandToken(fnArg) \notin IrcCommands) =>
                   (~r.ok /\ out = <<>>)

\* C24: the line ":p NICK a :t u" with CRLF was given to HandleMsg
C24_Witness ==
    /\ Len(fnRes) = 2
    /\ fnArg = LinePrefix \o <<"N", "I", "C", "K", " ", "a", " ", ":", "t", " ", "u">> \o CRLF
    /\ HandleMsg(Unprefixed(fnArg)) =
           [ok |-> TRUE, prefix |-> <<>>, cmd |-> <<"N", "I", "C", "K">>,
            args |-> <<<<"a">>>>, trailing |-> <<"t", " ", "u">>]


(***************************************************************************)
(* WordWrap, applied to sequences of words and maximum lengths.            *)
(***************************************************************************)
MaxWords == 3
MaxWrap == 4

\* the loop of WordWrap over the words not yet visited
RECURSIVE WrapLoop(_, _, _, _, _)
WrapLoop(allWords, maxLen, lines, curLen, words) ==
    IF allWords = <<>>
    THEN IF Len(words) > 0 THEN Append(lines, JoinWith(words, <<" ">>)) ELSE lines
    ELSE LET word == Head(allWords)
         IN  IF curLen + Len(words) + Len(word) > maxLen
             THEN WrapLoop(Tail(allWords), maxLen,
                           Append(lines, JoinWith(words, <<" ">>)), Len(word), <<word>>)
             ELSE WrapLoop(Tail(allWords), maxLen, lines, curLen + Len(word),
                           Append(words, word))

\* line[:maxLen] for the lines longer than maxLen
Truncate(line, maxLen) == IF Len(line) > maxLen THEN SubSeq(line, 1, maxLen) ELSE line

\* WordWrap
WordWrap(allWords, maxLen) ==
    LET lines == WrapLoop(allWords, maxLen, <<>>, 0, <<>>)
    IN  [i \in 1..Len(lines) |-> Truncate(lines[i], maxLen)]

\* the words given to WordWrap: of one to four bytes
WrapWords == {<<"a">>, <<"b", "b">>, <<"c", "c", "c">>, <<"d", "d", "d", "d">>}

WrapInputs ==
    [words : UNION {[1..n -> WrapWords] : n \in 0..MaxWords}, maxLen : 1..MaxWrap]

\* a sequence of words and a maximum length chosen
InitWrap ==
    /\ ConnInit /\ BatchInit /\ AlgoIdle
    /\ upUsers = SlackUsers /\ evLog = <<>> /\ IdxIdle
    /\ fnArg \in WrapInputs /\ fnRes = NoArg

\* WordWrap is called
ApplyWordWrap ==
    /\ Len(fnRes) = 1
    /\ fnRes' = <<"done", WordWrap(fnArg.words, fnArg.maxLen)>>
    /\ UNCHANGED <<connVars, batchVars, algoVars, evVars, fnArg, idxVars>>

NextWrap == ApplyWordWrap

SpecWrap == InitWrap /\ [][NextWrap]_vars

\* the words of ws, each longer than maxLen cut to its first maxLen bytes
CutWords(ws, maxLen) == [i \in 1..Len(ws) |-> SubSeq(ws[i], 1, Min(Len(ws[i]), maxLen))]

\* C25: for every word sequence W and every L >= 1, each line returned by
\* WordWrap(W, L) has length <= L, no line that holds several words splits a
\* word, and joining the returned lines with single spaces gives the words of
\* W in order, each word longer than L cut to its first L bytes; no empty line
\* is added.
C25_WrappedLinesAreTheWords ==
    Len(fnRes) = 2 =>
        LET lines == fnRes[2]
        IN  /\ \A i \in 1..Len(lines) : Len(lines[i]) <= fnArg.maxLen /\ lines[i] # <<>>
            /\ JoinWith(lines, <<" ">>) =
                   JoinWith(CutWords(fnArg.words, fnArg.maxLen), <<" ">>)

\* C25: three words wrapped at 4 bytes: "a bb" and "ccc"
C25_Witness ==
    /\ Len(fnRes) = 2
    /\ fnArg = [words |-> <<<<"a">>, <<"b", "b">>, <<"c", "c", "c">>>>, maxLen |-> 4]
    /\ fnRes[2] = <<<<"a", " ", "b", "b">>, <<"c", "c", "c">>>>


(***************************************************************************)
(* SplitReply, applied to preambles, descriptions and chunk sizes around   *)
(* the threshold of 512 bytes.  A slice expression out of range ends the   *)
(* process (fault).                                                        *)
(***************************************************************************)
SplitThreshold == 512

\* n times the byte c
Repeat(c, n) == [i \in 1..n |-> c]

\* strings.Fields: the maximal runs of bytes that are not white space
Fields(s) ==
    LET starts == {i \in 1..Len(s) : ~IsSpace(s[i]) /\ (i = 1 \/ IsSpace(s[i - 1]))}
        endOf(i) == CHOOSE j \in i..Len(s) :
                        /\ \A k \in i..j : ~IsSpace(s[k])
                        /\ j = Len(s) \/ IsSpace(s[j + 1])
        nth(k) == CHOOSE i \in starts : Cardinality({j \in starts : j < i}) = k - 1
    IN  [k \in 1..Cardinality(starts) |-> SubSeq(s, nth(k), endOf(nth(k)))]

\* SplitReply: the chunks, or the fault of line[:maxLen] with a negative maxLen
SplitReply(preamble, msg, chunksize) ==
    IF chunksize < SplitThreshold \/ chunksize >= Len(preamble) + Len(msg) + 2
    THEN [fault |-> FALSE, lines |-> <<preamble \o msg \o CRLF>>]
    ELSE LET maxLen == chunksize - Len(preamble) - 2
             raw == WrapLoop(Fields(msg), maxLen, <<>>, 0, <<>>)
             lines == WordWrap(Fields(msg), maxLen)
         IN  IF maxLen < 0 /\ \E i \in 1..Len(raw) : Len(raw[i]) > maxLen
             THEN [fault |-> TRUE, lines |-> <<>>]
             ELSE [fault |-> FALSE,
                   lines |-> [i \in 1..Len(lines) |-> preamble \o lines[i] \o CRLF]]

\* the arguments: chunk sizes below, at and above the threshold, short and
\* long preambles, descriptions of up to two short or long words
ChunkSizes == {100, SplitThreshold - 1, SplitThreshold, 600}
PreambleLens == {1, 10, SplitThreshold - 2, SplitThreshold - 1, 600}
ReplyWords == {<<"a">>, Repeat("c", 300), Repeat("d", 600)}

ReplyInputs ==
    [preamble : {Repeat("p", n) : n \in PreambleLens},
     msg : {JoinWith(ws, <<" ">>) : ws \in UNION {[1..n -> ReplyWords] : n \in 0..2}},
     chunksize : ChunkSizes]

\* a preamble, a description and a chunk size chosen
InitReply ==
    /\ ConnInit /\ BatchInit /\ AlgoIdle
    /\ upUsers = SlackUsers /\ evLog = <<>> /\ IdxIdle
    /\ fnArg \in ReplyInputs /\ fnRes = NoArg

\* SendIrcNumeric calls SplitReply
ApplySplitReply ==
    /\ Len(fnRes) = 1
    /\ LET r == SplitReply(fnArg.preamble, fnArg.msg, fnArg.chunksize)
       IN  fnRes' = <<"done", r>> /\ crashed' = r.fault
    /\ UNCHANGED <<netVars, readerVars, connOpen, ctxVars, cacheVars, taskVars, out,
                   hist, logins, batchVars, algoVars, evVars, fnArg, idxVars>>

NextReply == ApplySplitReply

SpecReply == InitReply /\ [][NextReply]_vars

\* the reply fits in one chunk, or chunking is off
OneChunk(a) ==
    a.chunksize < SplitThreshold \/ Len(a.preamble) + Len(a.msg) + 2 <= a.chunksize

\* C26: SplitReply returns the single line preamble+description+CRLF when
\* ChunkSize < 512 or when that line is at most ChunkSize bytes; otherwise it
\* returns one line per word-wrapped chunk, each starting with the preamble,
\* ending with CRLF and at most ChunkSize bytes long, for every preamble length.
C26_ChunksFitChunkSize ==
    Len(fnRes) = 2 =>
        LET r == fnRes[2]
        IN  /\ ~r.fault
            /\ IF OneChunk(fnArg)
               THEN r.lines = <<fnArg.preamble \o fnArg.msg \o CRLF>>
               ELSE \A i \in 1..Len(r.lines) :
                       /\ HasPrefix(r.lines[i], fnArg.preamble)
                       /\ HasSuffix(r.lines[i], CRLF)
                       /\ Len(r.lines[i]) <= fnArg.chunksize

\* C26: a description of two words of 300 bytes after a preamble of 10 bytes
\* was split at 512 into two lines
C26_Witness ==
    /\ Len(fnRes) = 2 /\ ~fnRes[2].fault
    /\ Len(fnArg.preamble) = 10 /\ fnArg.chunksize = SplitThreshold
    /\ fnArg.msg = Repeat("c", 300) \o <<" ">> \o Repeat("c", 300)
    /\ Len(fnRes[2].lines) = 2
    /\ \A i \in 1..2 : Len(fnRes[2].lines[i]) = 312


(***************************************************************************)
(* The login together with the tasks started by joinChannel, which write   *)
(* the JOIN, 332, 353 and 366 lines of each joined channel.                *)
(***************************************************************************)
NextJoin ==
    \/ \E l \in ClientLines : ClientSend(l)
    \/ ClientClose
    \/ DoNick
    \/ DoUser
    \/ DoPass
    \/ DoQuit
    \/ DoPing
    \/ DoPrivmsg
    \/ ReadError
    \/ \E c \in DOMAIN burst : BurstWrite(c)

SpecJoin == Init /\ [][NextJoin]_vars

\* the place of a numeric in the prescribed login sequence, 0 for other lines
LoginRank(kind) ==
    CASE kind = "001" -> 1
      [] kind = "005" -> 2
      [] kind \in {"332", "353", "366"} -> 3
      [] kind = "375" -> 4
      [] kind = "372" -> 5
      [] kind = "376" -> 6
      [] OTHER -> 0

\* the writes of the first login: those before a second 001
FirstLogin ==
    LET welcomes == {k \in DOMAIN out : out[k].kind = "001"}
        later == {k \in welcomes : \E j \in welcomes : j < k}
    IN  {k \in DOMAIN out : \A j \in later : k < j}

\* C27: after a successful login the client receives the numerics in the
\* order 001, then 005, then the 332/353/366 bursts of the joined channels,
\* then 375, then the 372 lines, then 376.
C27_LoginNumericsInOrder ==
    \A i, j \in FirstLogin :
        (i < j /\ LoginRank(out[i].kind) > 0 /\ LoginRank(out[j].kind) > 0)
            => LoginRank(out[i].kind) <= LoginRank(out[j].kind)

\* C27: a login wrote 001, 005, 375, the 372 lines and 376, and the burst of
\* a joined channel was written to its end
C27_Witness ==
    /\ \A kind \in {"001", "005", "375", "376"} :
           \E k \in FirstLogin : out[k].kind = kind /\ out[k].by = "reader"
    /\ Cardinality({k \in FirstLogin : out[k].kind = "372"}) = MotdLines
    /\ \E k \in FirstLogin : out[k].kind = "366" /\ out[k].by = "burst"


\* the writers the socket is meant to have: the line reader and the Slack
\* event handler, which also runs resolveChannelName
SocketWriters == {"reader", "event", "resolve"}

\* C28: for one connection, every write to the client socket is performed by
\* the line-reader task (handler replies) or by the Slack event-handler task;
\* no other task writes to the socket.
C28_OnlyReaderAndEventsWrite ==
    \A k \in DOMAIN out : out[k].by \in SocketWriters

\* C28: the login wrote its welcome from the line reader and a joined
\* channel's JOIN line reached the socket
C28_Witness ==
    /\ \E k \in DOMAIN out : out[k].by = "reader" /\ out[k].kind = "376"
    /\ \E k \in DOMAIN out : out[k].kind = "JOIN" /\ out[k].open


(***************************************************************************)
(* Teardown.  The line reader is a task of its own that the runtime keeps  *)
(* scheduling: whenever it can handle a line or observe the read error it  *)
(* eventually does.                                                        *)
(***************************************************************************)
\* one turn of the loop of Server.HandleRequest
ReaderStep ==
    DoNick \/ DoUser \/ DoPass \/ DoQuit \/ DoPing \/ DoPrivmsg \/ ReadError

SpecTeardown == Init /\ [][Next]_vars /\ WF_vars(ReaderStep)

\* the socket was closed on the server's side or by the client
SocketClosed == ~connOpen \/ peerClosed

\* C29: whenever a connection's socket is closed, by the client, by QUIT, by
\* a login failure or by a Slack disconnect, the line reader eventually
\* observes the read error, removes the connection's entry from the
\* process-wide connection index and returns, and no command of that
\* connection is handled after the removal.
C29_ClosedSocketEndsReader ==
    /\ SocketClosed ~> ConnectionEnded
    /\ [][ConnectionEnded => hist' = hist]_vars

\* C29: the Slack disconnect closed the socket, and the reader observed the
\* read error, removed the entry and returned
C29_Witness ==
    /\ ConnectionEnded /\ ~crashed
    /\ evPc = "done" /\ ~peerClosed
    /\ \A i \in DOMAIN hist : hist[i].line.cmd # "QUIT"


(***************************************************************************)
(* The download task of FileHandler.Download, applied to the answers the   *)
(* HTTP client gives to its requests.                                      *)
(***************************************************************************)
maxHTTPAttempts == 3

\* client.Do: an error without a response, or a response with a status
NoResponse == [nil |-> TRUE, StatusCode |-> 0]
Response(code) == [nil |-> FALSE, StatusCode |-> code]
Answers ==
    {[err |-> e, resp |-> NoResponse] : e \in {"timeout", "refused"}}
    \cup {[err |-> "nil", resp |-> Response(code)] : code \in {200, 404, 500, 502}}

\* retryableNetError
retryableNetError(err) == err # "nil" /\ err = "timeout"

\* retryableHTTPError
retryableHTTPError(resp) == ~resp.nil /\ resp.StatusCode \in {500, 502}

\* after the loop: resp.StatusCode on the last response, a fault when there is
\* none, and io.Copy for status 200
AfterAttempts(resp, requests) ==
    IF resp.nil THEN [requests |-> requests, copied |-> FALSE, fault |-> TRUE]
    ELSE [requests |-> requests, copied |-> resp.StatusCode = 200, fault |-> FALSE]

\* for attempt := 0; attempt < maxHTTPAttempts; attempt++
RECURSIVE AttemptLoop(_, _, _, _)
AttemptLoop(answers, attempt, resp, requests) ==
    IF attempt >= maxHTTPAttempts \/ attempt >= Len(answers)
    THEN AfterAttempts(resp, requests)
    ELSE LET a == answers[attempt + 1]
             issued == Append(requests, a)
         IN  IF (a.err # "nil" /\ retryableNetError(a.err)) \/ retryableHTTPError(a.resp)
             THEN AttemptLoop(answers, attempt + 1, a.resp, issued)
             ELSE IF a.err = "nil"
             THEN AfterAttempts(a.resp, issued)
             ELSE [requests |-> issued, copied |-> FALSE, fault |-> FALSE]

\* the task started by Download: nothing is requested when the local file
\* cannot be created
Download(created, answers) ==
    IF ~created THEN [requests |-> <<>>, copied |-> FALSE, fault |-> FALSE]
    ELSE AttemptLoop(answers, 0, NoResponse, <<>>)

\* the answers to one request more than the task may issue
DownloadInputs ==
    [created : BOOLEAN, answers : [1..(maxHTTPAttempts + 1) -> Answers]]

\* a file to download and the answers its requests will get
InitDownload ==
    /\ ConnInit /\ BatchInit /\ AlgoIdle
    /\ upUsers = SlackUsers /\ evLog = <<>> /\ IdxIdle
    /\ fnArg \in DownloadInputs /\ fnRes = NoArg

\* the download task runs to its end
RunDownload ==
    /\ Len(fnRes) = 1
    /\ LET r == Download(fnArg.created, fnArg.answers)
       IN  fnRes' = <<"done", r>> /\ crashed' = r.fault
    /\ UNCHANGED <<netVars, readerVars, connOpen, ctxVars, cacheVars, taskVars, out,
                   hist, logins, batchVars, algoVars, evVars, fnArg, idxVars>>

NextDownload == RunDownload

SpecDownload == InitDownload /\ [][NextDownload]_vars

\* a timeout network error or an HTTP 500/502 response
RetryableAnswer(a) == a.err = "timeout" \/ (a.err = "nil" /\ a.resp.StatusCode \in {500, 502})

\* C30: a file download task issues at most maxHTTPAttempts (3) HTTP requests,
\* issues a further request only after a timeout network error or an HTTP
\* 500/502 response, and in every other case, including a third retryable
\* failure, ends without copying a response body and without a fault.
C30_DownloadRetriesBounded ==
    Len(fnRes) = 2 =>
        LET r == fnRes[2]
            n == Len(r.requests)
        IN  /\ n <= maxHTTPAttempts
            /\ \A i \in 1..(n - 1) : RetryableAnswer(r.requests[i])
            /\ ~r.fault
            /\ (n = 0 \/ r.requests[n] # [err |-> "nil", resp |-> Response(200)])
                   => ~r.copied

\* C30: three requests were answered by HTTP 500 and the task ended without
\* a copy and without a fault
C30_Witness ==
    /\ Len(fnRes) = 2
    /\ Len(fnRes[2].requests) = maxHTTPAttempts
    /\ \A i \in 1..maxHTTPAttempts : fnRes[2].requests[i].resp.StatusCode = 500
    /\ ~fnRes[2].copied /\ ~fnRes[2].fault


(***************************************************************************)
(* Channel.MembersDiff, applied to member lists of bounded length.         *)
(***************************************************************************)
MaxMembers == 3

\* the keys of the map built from a list: membersMap[m] = true for each m
KeysOf(list) == {list[i] : i \in DOMAIN list}

\* for _, m := range list: append m when it is not a key of the map
RECURSIVE AppendMissing(_, _, _)
AppendMissing(list, keys, acc) ==
    IF list = <<>> THEN acc
    ELSE AppendMissing(Tail(list), keys,
                       IF Head(list) \notin keys THEN Append(acc, Head(list)) ELSE acc)

\* MembersDiff with both loops looking into the channel's own map
MembersDiffOwnMap(members, otherMembers) ==
    [added |-> AppendMissing(otherMembers, KeysOf(members), <<>>),
     removed |-> AppendMissing(members, KeysOf(members), <<>>)]

\* Channel.MembersDiff
MembersDiff(members, otherMembers) ==
    [added |-> AppendMissing(otherMembers, KeysOf(members), <<>>),
     removed |-> AppendMissing(members, KeysOf(otherMembers), <<>>)]

MemberIDs == {"u1", "u2", "u3"}
MemberLists == UNION {[1..n -> MemberIDs] : n \in 0..MaxMembers}
DiffInputs == [members : MemberLists, other : MemberLists]

\* a channel with its members and another member list
InitDiff ==
    /\ ConnInit /\ BatchInit /\ AlgoIdle
    /\ upUsers = SlackUsers /\ evLog = <<>> /\ IdxIdle
    /\ fnArg \in DiffInputs /\ fnRes = NoArg

\* the channel's MembersDiff is called with the other list
ApplyMembersDiff ==
    /\ Len(fnRes) = 1
    /\ fnRes' = <<"done", MembersDiff(fnArg.members, fnArg.other)>>
    /\ UNCHANGED <<connVars, batchVars, algoVars, evVars, fnArg, idxVars>>

NextDiff == ApplyMembersDiff

SpecDiff == InitDiff /\ [][NextDiff]_vars

\* res is the list of the elements of list at the positions where the element
\* is not in the set, in the order of list
IsRestOf(res, list, set) ==
    LET pos == {i \in DOMAIN list : list[i] \notin set}
        nth(k) == CHOOSE i \in pos : Cardinality({j \in pos : j < i}) = k - 1
    IN  /\ Len(res) = Cardinality(pos)
        /\ \A k \in DOMAIN res : res[k] = list[nth(k)]

\* C31: for every member list M of a channel and every other list O,
\* MembersDiff(O) returns as added exactly the elements of O that are not in
\* M, in the order of O, and as removed exactly the elements of M that are
\* not in O, in the order of M; both are empty when M and O hold the same
\* elements.
C31_MembersDiffAddedRemoved ==
    Len(fnRes) = 2 =>
        /\ IsRestOf(fnRes[2].added, fnArg.other, KeysOf(fnArg.members))
        /\ IsRestOf(fnRes[2].removed, fnArg.members, KeysOf(fnArg.other))
        /\ KeysOf(fnArg.members) = KeysOf(fnArg.other)
               => fnRes[2].added = <<>> /\ fnRes[2].removed = <<>>

\* C31: a channel with members u1 and u2 compared with the list u1, u3 gave
\* u3 as added and u2 as removed
C31_Witness ==
    /\ Len(fnRes) = 2
    /\ fnArg.members = <<"u1", "u2">> /\ fnArg.other = <<"u1", "u3">>
    /\ fnRes[2].added = <<"u3">> /\ fnRes[2].removed = <<"u2">>


(***************************************************************************)
(* The process-wide connection index.  Server.Start starts one             *)
(* HandleRequest task per accepted connection; each of them reads, writes  *)
(* and deletes entries of the map UserContexts.  A map operation takes     *)
(* time: a task is inside it from the step that begins it to the step      *)
(* that ends it.                                                           *)
(***************************************************************************)
MaxReqs == 2

\* the map operations that read, and those that write
MapReads == {"reading"}
MapWrites == {"writing", "deleting"}

\* HandleRequest reads a line and HandleMsg begins UserContexts[addr]
HrLookup(c) ==
    /\ hrPc[c] = "idle" /\ hrLines[c] < MaxReqs
    /\ hrLines' = [hrLines EXCEPT ![c] = @ + 1]
    /\ hrPc' = [hrPc EXCEPT ![c] = "reading"]
    /\ UNCHANGED <<connVars, batchVars, algoVars, evVars, fnVars, UserContexts>>

\* the lookup ends: with an entry the handler runs, without one a context is
\* created
HrLookupDone(c) ==
    /\ hrPc[c] = "reading"
    /\ hrPc' = [hrPc EXCEPT ![c] = IF c \in UserContexts THEN "idle" ELSE "create"]
    /\ UNCHANGED <<connVars, batchVars, algoVars, evVars, fnVars, UserContexts, hrLines>>

\* HandleMsg begins UserContexts[addr] = ctx
HrInsert(c) ==
    /\ hrPc[c] = "create"
    /\ hrPc' = [hrPc EXCEPT ![c] = "writing"]
    /\ UNCHANGED <<connVars, batchVars, algoVars, evVars, fnVars, UserContexts, hrLines>>

\* the assignment ends and the handler runs
HrInsertDone(c) ==
    /\ hrPc[c] = "writing"
    /\ UserContexts' = UserContexts \cup {c}
    /\ hrPc' = [hrPc EXCEPT ![c] = "idle"]
    /\ UNCHANGED <<connVars, batchVars, algoVars, evVars, fnVars, hrLines>>

\* ReadString fails and HandleRequest begins delete(UserContexts, addr)
HrDelete(c) ==
    /\ hrPc[c] = "idle"
    /\ hrPc' = [hrPc EXCEPT ![c] = "deleting"]
    /\ UNCHANGED <<connVars, batchVars, algoVars, evVars, fnVars, UserContexts, hrLines>>

\* the delete ends and HandleRequest returns
HrDeleteDone(c) ==
    /\ hrPc[c] = "deleting"
    /\ UserContexts' = UserContexts \ {c}
    /\ hrPc' = [hrPc EXCEPT ![c] = "done"]
    /\ UNCHANGED <<connVars, batchVars, algoVars, evVars, fnVars, hrLines>>

NextIndex ==
    \/ \E c \in Conns : HrLookup(c)
    \/ \E c \in Conns : HrLookupDone(c)
    \/ \E c \in Conns : HrInsert(c)
    \/ \E c \in Conns : HrInsertDone(c)
    \/ \E c \in Conns : HrDelete(c)
    \/ \E c \in Conns : HrDeleteDone(c)

SpecIndex == Init /\ [][NextIndex]_vars

\* C32: with two or more client connections active at the same time, no two
\* tasks read or write the process-wide connection index (UserContexts) at
\* the same time without mutual exclusion: never is one task inside a write
\* of the map while another task is inside a read or a write of it.
C32_IndexAccessesExclusive ==
    \A c, d \in Conns :
        (c # d /\ hrPc[c] \in MapWrites) => hrPc[d] \notin MapReads \cup MapWrites

\* C32: both connections are active, one has its entry in the index and the
\* other is inside the insertion of its own
C32_Witness ==
    /\ hrPc["a1"] = "writing" /\ hrPc["a2"] = "idle"
    /\ UserContexts = {"a2"}


\* the handler of the line looks a name up in the Channels cache
UsesCaches(l) ==
    /\ l.cmd = "PRIVMSG"
    /\ Len(l.args) \in {1, 2} /\ l.args[1] # <<>>
    /\ Len(l.args) = 2 \/ l.trailing # <<>>

\* C33: after the event handler has processed a DisconnectedEvent and unset
\* the Users and Channels caches, no command handler of that connection (one
\* already running, or one run for a line that was read before the close)
\* uses the unset caches.
C33_NoHandlerOnUnsetCaches ==
    [][(Channels.nil /\ Len(hist') > Len(hist))
           => ~UsesCaches(hist'[Len(hist')].line)]_vars

\* C33: the caches are unset after a Slack disconnect while the reader still
\* holds a line it had read before the close
C33_Witness ==
    /\ Channels.nil /\ Users.nil /\ evPc = "done" /\ ~connOpen
    /\ readerPc = "run" /\ rbuf # <<>> /\ ~crashed


\* the batcher's timer case ran with text in its buffer: one
\* SlackClient.PostMessage per target
BatcherPosts == timerArmed /\ ~timerArmed' /\ textBuffer # {}

\* C34: no operation uses the Slack client handle while it is unset: JOIN,
\* PART, TOPIC, NAMES and a PRIVMSG flushed by the batcher that arrive before
\* the login has completed do not reach a Slack API call.
C34_NoSlackCallBeforeLogin ==
    [][BatcherPosts => slackClient]_vars

\* C34: a PRIVMSG that arrived before the login is in the batcher's buffer
\* and the timer is armed
C34_Witness ==
    /\ ~slackClient /\ logins = <<>> /\ ~crashed
    /\ textBuffer # {} /\ timerArmed


\* the IRC names of the channels the user is a member of at login
JoinedAtLogin == {IRCName(ch) : ch \in {c \in SlackChannels : c.IsMember}}

\* C35: for every channel the user is a member of at login, no PRIVMSG for
\* that channel is written to the client socket before the JOIN line of that
\* channel, under every interleaving of the asynchronous join-burst tasks and
\* the event handler.
C35_JoinBeforePrivmsg ==
    \A k \in DOMAIN out :
        (out[k].kind = "PRIVMSG" /\ out[k].arg \in JoinedAtLogin)
            => \E j \in 1..(k - 1) : out[j].kind = "JOIN" /\ out[j].arg = out[k].arg

\* C35: the JOIN line of a channel joined at login and a PRIVMSG of the
\* event handler for it were both written
C35_Witness ==
    \E j, k \in DOMAIN out :
        /\ out[j].kind = "JOIN" /\ out[j].by = "burst" /\ out[j].arg \in JoinedAtLogin
        /\ out[k].kind = "PRIVMSG" /\ out[k].by = "event" /\ out[k].arg = out[j].arg


(***************************************************************************)
(* Messages of the event handler, whose resolveChannelName inserts         *)
(* conversations with FetchByIDs, together with PART commands, whose       *)
(* handler calls Channels.Fetch.                                           *)
(***************************************************************************)
NextCache ==
    \/ EvPrintMessage
    \/ \E l \in PartLines : HandlePart(l)

SpecCache == InitLoggedIn /\ [][NextCache]_vars

\* the entries FetchByIDs inserted: c.channels[ch.ID] = ch
InsertedByIDs(chans) == {e \in chans.map : e.key = e.val.ID}

\* C36: once a conversation has been inserted into the Channels cache by
\* FetchByIDs, ByID of its id keeps returning it after every later
\* Channels.Fetch (such as the one PART performs), sequential or concurrent
\* with the insertion, until a Slack disconnect.
C36_InsertedConversationStays ==
    [][\A e \in InsertedByIDs(Channels) :
           ~Channels'.nil => ChannelsByID(Channels', e.key) = {e.val}]_vars

\* C36: a message of the multi-party IM made FetchByIDs insert it, and ByID
\* returns it
C36_Witness ==
    /\ Len(evLog) = 1 /\ evLog[1].type = "message"
    /\ evLog[1].msg.Channel = ChanG3.ID
    /\ InsertedByIDs(Channels) = {[key |-> ChanG3.ID, val |-> ChanG3]}
    /\ ChannelsByID(Channels, ChanG3.ID) = {ChanG3}


\* the i-th command was a PART whose Channels.Fetch got an error that is not
\* a rate limit from the upstream
FetchFailed(i) ==
    /\ evLog[i].type = "PART" /\ Len(evLog[i].line.args) = 1
    /\ evLog[i].fetch[Len(evLog[i].fetch)] = "err"

\* C37: when an upstream call of Users.Fetch or Channels.Fetch fails with an
\* error that is not a rate limit, the content of the cache after the call
\* equals its content before the call.
C37_FailedFetchKeepsCache ==
    \A i \in DOMAIN evLog : FetchFailed(i) => evLog[i].list = evLog[i].before

\* C37: the Channels.Fetch of a PART failed on its first request while the
\* cache held the channels of the login
C37_Witness ==
    /\ Len(evLog) = 1 /\ FetchFailed(1)
    /\ evLog[1].fetch = <<"err">>
    /\ {e.val.ID : e \in evLog[1].before} = {ChanC1.ID, ChanC2.ID}


(***************************************************************************)
(* The batcher with the passing of time.  A tick is half of the timer's    *)
(* period; the timer case can run only when the timer has expired.         *)
(* Messages can keep arriving: of the arrivals beyond the bound of the     *)
(* log only the reset of the timer is kept.                                *)
(***************************************************************************)
\* half a second passes without the timer expiring
TimerTick ==
    /\ ~crashed /\ batcherStarted /\ timerArmed /\ timerLeft > 0
    /\ timerLeft' = timerLeft - 1
    /\ UNCHANGED <<connVars, batcherStarted, textBuffer, message, timerArmed, accepted,
                   posts, algoVars, extVars>>

\* case <-timer.C: the timer has expired and the buffer is flushed
FlushOnExpiry == timerLeft = 0 /\ TimerFire

\* case message = <-ic.postMessage, for a message beyond the bound of the
\* log: timer.Reset(time.Second)
ArriveAgain(l) ==
    /\ ~crashed /\ readerPc = "run" /\ connOpen /\ ~Channels.nil
    /\ Len(accepted) = MaxMsgs
    /\ LET m == PrivMsgTarget(Channels, l)
       IN  /\ m.send
           /\ MapGet(textBuffer, m.target, <<>>) # <<>>
           /\ message' = SlackPostMessage(m.target, m.ts, m.text)
    /\ timerArmed' = TRUE
    /\ timerLeft' = TimerTicks
    /\ UNCHANGED <<connVars, batcherStarted, textBuffer, accepted, posts, algoVars,
                   extVars>>

NextFlush ==
    \/ \E l \in BatchLines : Enqueue(l)
    \/ \E l \in BatchLines : ArriveAgain(l)
    \/ TimerTick
    \/ FlushOnExpiry

\* time passes, and the batcher task runs its timer case once the timer has
\* expired
SpecFlush ==
    InitLoggedIn /\ [][NextFlush]_vars /\ WF_vars(TimerTick) /\ WF_vars(FlushOnExpiry)

\* the k-th accepted message is part of a post
Posted(k) == \E i \in DOMAIN posts : posts[i].upto >= k

\* C38: every message accepted by the batcher is eventually posted to Slack
\* even when further messages keep being enqueued: the timer reset done on
\* each arrival cannot postpone the flush of an already buffered message
\* forever.
C38_AcceptedEventuallyPosted ==
    \A k \in 1..MaxMsgs : (Len(accepted) >= k) ~> Posted(k)

\* C38: a message was accepted, the timer expired and the message was posted
C38_Witness ==
    /\ Len(accepted) = 1 /\ Posted(1)
    /\ timerLeft = 0 /\ ~timerArmed /\ textBuffer = {}


\* C39: the event handler never writes a PRIVMSG whose target is empty: when
\* resolveChannelName cannot resolve the conversation of a message or
\* reaction and returns the empty string, no PRIVMSG line is written for
\* that event.
C39_NoPrivmsgWithoutTarget ==
    \A k \in DOMAIN out :
        (out[k].kind = "PRIVMSG" /\ out[k].by = "event") => out[k].arg # <<>>

\* C39: resolveChannelName failed for a message, wrote the 400 reply and
\* returned the empty string
C39_Witness ==
    \E i \in DOMAIN evLog :
        /\ evLog[i].type = "message" /\ evLog[i].name = <<>>
        /\ \E k \in WritesOf(i, "resolve") : out[k].kind = "400"


\* the PRIVMSG line whose handler enqueued the k-th accepted message
LineOf(k) == hist[Len(LoginLines) + k].line

\* C40: a PRIVMSG whose target has no channel prefix (a nick) is always
\* enqueued to the batcher with target '@<nick>' and never with the Slack
\* name of a channel, for every content of the Channels cache, including a
\* cached channel whose name equals the nick.
C40_NickTargetGetsAt ==
    \A k \in DOMAIN accepted :
        ~HasChannelPrefix(LineOf(k).args[1])
            => accepted[k].Target = <<"@">> \o LineOf(k).args[1]

\* C40: a PRIVMSG to the nick r was enqueued while the cache holds a channel
\* named r
C40_Witness ==
    /\ Len(accepted) = 1 /\ LineOf(1).args[1] = <<"r">>
    /\ ChannelsByName(Channels, <<"r">>) # {}

=============================================================================
